---- MODULE Spec2Model ----
(***************************************************************************)
(* Model of the client-facing proxy of tokio-postgres:                     *)
(*   - Spec      : ProxyManager::handle_conn run by NConn concurrent       *)
(*                 connections sharing the cancel registry (proxy/mod.rs)  *)
(*   - SpecCodec : the startup codec decoding a byte stream                *)
(*                 (postgres-protocol message/startup.rs, shared.rs)       *)
(***************************************************************************)
EXTENDS Integers, Sequences, FiniteSets, TLC

(***************************************************************************)
(* Bounds                                                                  *)
(***************************************************************************)
\* number of client connections handled concurrently
NConn == 2
\* SSLRequest/GSSEncRequest frames one client sends before its terminal frame
MaxNeg == 2
\* process ids and secret keys handed out by backends are drawn from 1..MaxId
MaxId == 2

Conn == 1..NConn
Ids == 1..MaxId

\* the absent handle (HashMap::get returning None)
NoHandle == 0

(***************************************************************************)
(* State of the orchestrator                                               *)
(***************************************************************************)
VARIABLES
    pc,             \* position of each connection's handle_conn task
    negs,           \* SSL/GSS requests read so far by read_frontend_startup
    out,            \* messages written to the client's socket, in order
    write_buf,      \* messages fed to the framed sink and not flushed yet
    key,            \* cancel.{process_id, secret_key} or backend_info.{..}
    auth_method,    \* accept.auth_method chosen by the bouncer
    proxy_result,   \* result of proxy_data
    ev,             \* what the task has done so far (history)
    fired,          \* handles on which this connection called cancel_query
    cancel_handles, \* ProxyManager.cancel_handles: CancelKey -> handle
    lock_readers,   \* tasks holding a read guard of the RwLock
    lock_queue      \* tasks waiting for the RwLock, in arrival order

ovars == <<pc, negs, out, write_buf, key, auth_method, proxy_result, ev, fired,
           cancel_handles, lock_readers, lock_queue>>

(***************************************************************************)
(* State of one framed client stream (Framed<_, StartupCodec>)             *)
(***************************************************************************)
VARIABLES
    wire,                 \* bytes the client has sent that were not read yet
    read_buf,             \* Framed's read buffer, handed to decode
    seen_client_startup,  \* the codec's phase flag
    stream,               \* "open", or "failed" once decode returned Err / aborted
    result,               \* what the last decode call returned
    prev_buf,             \* read_buf as it was when the last decode was called
    prev_seen,            \* seen_client_startup at that time
    rest_buf              \* read_buf as the last decode call left it

cvars == <<wire, read_buf, seen_client_startup, stream, result, prev_buf, prev_seen,
           rest_buf>>

(***************************************************************************)
(* State of StartupResponse::encode writing into one output buffer         *)
(***************************************************************************)
VARIABLES
    dst,            \* the BytesMut the responses are encoded into
    dst_before,     \* dst as it was when encode was last called
    item            \* the StartupResponse encode was last called with

evars == <<dst, dst_before, item>>

(***************************************************************************)
(* State of one connection from connect_proxy to the end of                *)
(* complete_client_init, with the backend's parameters spelled out         *)
(***************************************************************************)
VARIABLES
    replay_pc,      \* position in handle_conn / complete_client_init
    backend_info,   \* "none", or what connect_proxy returned: "ok" / "err"
    backend_parameters, \* backend_info.parameters: HashMap<String, String>
    parameters,     \* the sorted Vec, what is left of it to feed
    sink,           \* frames fed to startup_stream and not written yet
    client_io            \* frames written to the client's socket, in order

pvars == <<replay_pc, backend_info, backend_parameters, parameters, sink, client_io>>

(***************************************************************************)
(* State of one call of StartupData::parse                                 *)
(***************************************************************************)
VARIABLES
    pairs,          \* the <<key, value>> pairs the client put into the payload
    raw,            \* the payload of the Startup frame, as bytes
    startup_data    \* what StartupData::parse returned, once it was called

dvars == <<pairs, raw, startup_data>>

(***************************************************************************)
(* State of one connection inside client_startup, down to the bytes: the   *)
(* Framed stream, read_frontend_startup, the bouncer and authenticate      *)
(***************************************************************************)
VARIABLES
    io,             \* bytes the client sends that Framed has not read yet
    buffer,         \* Framed's read buffer
    is_readable,    \* Framed: the buffer may hold a frame, decode comes next
    eof,            \* Framed: the last read returned 0 bytes
    codec,          \* the StartupCodec's phase flag of this connection
    at,             \* the await client_startup is suspended at, or "done"
    replies,        \* StartupResponses written to the client, in order
    requests,       \* what try_next has yielded to read_frontend_startup
    reader,         \* what read_frontend_startup returned, once it did
    startup,        \* StartupData::parse(raw), once a Startup was read
    routed,         \* bouncer.handle_startup was called
    method,         \* accept.auth_method
    auth_salt,      \* the salt of the challenge
    chunks,         \* the chunks the client sent, one frame each
    accept,         \* what client_startup returned: "Some", "None", or
                    \* "none" while it runs ("Panic": the task panicked)
    error           \* the error that made it return None

svars == <<io, buffer, is_readable, eof, codec, at, replies, requests, reader,
           startup, routed, method, auth_salt, chunks, accept, error>>

(***************************************************************************)
(* State of proxy_data on the two FramedParts of one session               *)
(***************************************************************************)
VARIABLES
    client,         \* client: FramedParts, its io being what is written to it
    server,         \* server: FramedParts, likewise
    incoming,       \* bytes each peer sends while the relay runs
    relay_at,       \* the await proxy_data is suspended at, or "done"
    progress,       \* how many bytes each write_all future has written
    relay_result    \* what proxy_data returned

rvars == <<client, server, incoming, relay_at, progress, relay_result>>

(***************************************************************************)
(* State of one call of connect_proxy                                      *)
(***************************************************************************)
VARIABLES
    config,          \* the sizes of config.host, .hostaddr, .port and
                     \* load_balance_hosts
    indices,         \* the indices the for loop has still to visit
    tried,           \* the indices connect_host was called for, in order
    connect_error,   \* the local `error`
    connect_at,      \* "entry", "loop" or "done"
    connect_result   \* what connect_proxy returned

hvars == <<config, indices, tried, connect_error, connect_at, connect_result>>

\* the state outside the orchestrator and the codec
xvars == <<evars, pvars, dvars, svars, rvars, hvars>>

vars == <<ovars, cvars, xvars>>

(***************************************************************************)
(* CancelKey and the registry map                                          *)
(***************************************************************************)
CancelKey == [process_id : Ids, secret_key : Ids]

\* a key comparison that forgets the secret
CancelKeyEqProcessIdOnly(a, b) == a.process_id = b.process_id

\* #[derive(PartialEq, Eq)] on CancelKey: equal in both fields
CancelKeyEq(a, b) == a.process_id = b.process_id /\ a.secret_key = b.secret_key

\* a lookup that matches on the process id alone
MapGetByProcessId(map, k) ==
    IF \E k2 \in DOMAIN map : k2.process_id = k.process_id /\ map[k2] /= NoHandle
    THEN map[CHOOSE k2 \in DOMAIN map : k2.process_id = k.process_id /\ map[k2] /= NoHandle]
    ELSE NoHandle

\* HashMap::get: the handle stored under a key equal to k, if any
MapGet(map, k) ==
    IF \E k2 \in DOMAIN map : CancelKeyEq(k2, k) /\ map[k2] /= NoHandle
    THEN map[CHOOSE k2 \in DOMAIN map : CancelKeyEq(k2, k) /\ map[k2] /= NoHandle]
    ELSE NoHandle

\* an insert that keeps the value already stored under an equal key
MapInsertKeepingFirst(map, k, h) ==
    [k2 \in DOMAIN map |-> IF CancelKeyEq(k2, k) /\ map[k2] = NoHandle THEN h ELSE map[k2]]

\* HashMap::insert: replaces the value stored under an equal key
MapInsert(map, k, h) == [k2 \in DOMAIN map |-> IF CancelKeyEq(k2, k) THEN h ELSE map[k2]]

\* HashMap::remove
MapRemove(map, k) == [k2 \in DOMAIN map |-> IF CancelKeyEq(k2, k) THEN NoHandle ELSE map[k2]]

\* a handle is identified by the connection whose handle_conn built it
CancelHandle(c) == c

\* a handle_cancel that clones the handle and drops the guard before the RPC
GuardDroppedBeforeCancelQuery == FALSE

\* handle_cancel: `if let Some(handle) = self.cancel_handles.read().await.get(&key)`
\* borrows `handle` from the read guard, a temporary of the scrutinee that
\* lives to the end of the if-let body, cancel_query(..).await included
GuardHeldDuringCancelQuery == TRUE

\* `proxy_data(..).await?` ahead of deregister(): an Err would return at once
AfterProxyDataReturningOnErr(r) == IF r = "ok" THEN "deregister_wait" ELSE "done"

\* handle_conn: proxy_result is bound, then deregister() runs for Ok and Err alike
AfterProxyData(r) == "deregister_wait"

(***************************************************************************)
(* Messages on the client socket                                           *)
(***************************************************************************)
SSLResponseFalse == "N"
GSSEncResponseFalse == "N"
AuthenticationMD5Password == "AuthenticationMD5Password"
AuthenticationOk == "AuthenticationOk"
ParameterStatus == "ParameterStatus"
ReadyForQuery == "ReadyForQuery"
ErrAuthenticationFailed == "ErrorResponse(authentication failed)"
ErrConnectionRejected == "ErrorResponse(connection rejected)"
ErrBackendConnectionFailed == "ErrorResponse(backend connection failed: ..)"

NoKey == [process_id |-> 0, secret_key |-> 0]

Without(q, c) == SelectSeq(q, LAMBDA x : x /= c)

Did(c, e) == ev' = [ev EXCEPT ![c] = @ \cup e]

\* `_ = startup_stream.send(ErrorResponse(..)).await`: the write may fail, the
\* result is dropped either way
SendIgnoringError(c, msg) ==
    \E sent \in BOOLEAN : out' = [out EXCEPT ![c] = IF sent THEN Append(@, msg) ELSE @]

(***************************************************************************)
(* Init                                                                    *)
(***************************************************************************)
OInit ==
    /\ pc = [c \in Conn |-> "read_startup"]
    /\ negs = [c \in Conn |-> 0]
    /\ out = [c \in Conn |-> <<>>]
    /\ write_buf = [c \in Conn |-> <<>>]
    /\ key = [c \in Conn |-> NoKey]
    /\ auth_method = [c \in Conn |-> "none"]
    /\ proxy_result = [c \in Conn |-> "none"]
    /\ ev = [c \in Conn |-> {}]
    /\ fired = [c \in Conn |-> <<>>]
    /\ cancel_handles = [k \in CancelKey |-> NoHandle]
    /\ lock_readers = {}
    /\ lock_queue = <<>>

(***************************************************************************)
(* read_frontend_startup, called from client_startup                       *)
(***************************************************************************)
\* SSLRequest / GSSEncRequest: answer 'N' and keep reading; a failed send
\* returns Err, which client_startup turns into None
ReadNegotiation(c) ==
    /\ pc[c] = "read_startup"
    /\ negs[c] < MaxNeg
    /\ negs' = [negs EXCEPT ![c] = @ + 1]
    /\ \E resp \in {SSLResponseFalse, GSSEncResponseFalse}, sent \in BOOLEAN :
          IF sent
          THEN /\ out' = [out EXCEPT ![c] = Append(@, resp)]
               /\ pc' = pc
          ELSE /\ out' = out
               /\ pc' = [pc EXCEPT ![c] = "done"]
    /\ UNCHANGED <<cvars, xvars,write_buf, key, auth_method, proxy_result, ev, fired,
                   cancel_handles, lock_readers, lock_queue>>

\* Cancel frame: client_startup calls handle_cancel, which asks for the read lock
ReadCancel(c) ==
    /\ pc[c] = "read_startup"
    /\ \E k \in CancelKey : key' = [key EXCEPT ![c] = k]
    /\ pc' = [pc EXCEPT ![c] = "cancel_wait"]
    /\ lock_queue' = Append(lock_queue, c)
    /\ Did(c, {"cancel"})
    /\ UNCHANGED <<cvars, xvars,negs, out, write_buf, auth_method, proxy_result, fired,
                   cancel_handles, lock_readers>>

\* Startup frame: StartupData::parse, then the bouncer is asked
ReadStartup(c) ==
    /\ pc[c] = "read_startup"
    /\ pc' = [pc EXCEPT ![c] = "route"]
    /\ Did(c, {"startup"})
    /\ UNCHANGED <<cvars, xvars,negs, out, write_buf, key, auth_method, proxy_result, fired,
                   cancel_handles, lock_readers, lock_queue>>

\* a reader whose error is reported to the client before the return
ReadFailNotifying(c) ==
    /\ pc[c] = "read_startup"
    /\ SendIgnoringError(c, ErrAuthenticationFailed)
    /\ pc' = [pc EXCEPT ![c] = "done"]
    /\ Did(c, {"read_failed", "notified"})
    /\ UNCHANGED <<cvars, xvars,negs, write_buf, key, auth_method, proxy_result, fired,
                   cancel_handles, lock_readers, lock_queue>>

\* decode error or end of stream: `.ok()?` returns None, nothing is sent
ReadFail(c) ==
    /\ pc[c] = "read_startup"
    /\ pc' = [pc EXCEPT ![c] = "done"]
    /\ Did(c, {"read_failed"})
    /\ UNCHANGED <<cvars, xvars,negs, out, write_buf, key, auth_method, proxy_result, fired,
                   cancel_handles, lock_readers, lock_queue>>

(***************************************************************************)
(* client_startup: routing and authentication                              *)
(***************************************************************************)
\* a reject after which handle_conn goes on to the backend
RouteRejectGoingOn(c) ==
    /\ pc[c] = "route"
    /\ SendIgnoringError(c, ErrConnectionRejected)
    /\ pc' = [pc EXCEPT ![c] = "connect"]
    /\ Did(c, {"rejected", "notified"})
    /\ UNCHANGED <<cvars, xvars,negs, write_buf, key, auth_method, proxy_result, fired,
                   cancel_handles, lock_readers, lock_queue>>

\* bouncer.handle_startup(..) returns Err(reject)
RouteReject(c) ==
    /\ pc[c] = "route"
    /\ SendIgnoringError(c, ErrConnectionRejected)
    /\ pc' = [pc EXCEPT ![c] = "done"]
    /\ Did(c, {"rejected", "notified"})
    /\ UNCHANGED <<cvars, xvars,negs, write_buf, key, auth_method, proxy_result, fired,
                   cancel_handles, lock_readers, lock_queue>>

\* Ok(accept) with AuthMethod::Trust: authenticate returns Ok(()) at once
RouteAcceptTrust(c) ==
    /\ pc[c] = "route"
    /\ auth_method' = [auth_method EXCEPT ![c] = "Trust"]
    /\ pc' = [pc EXCEPT ![c] = "connect"]
    /\ Did(c, {"accepted", "authenticated"})
    /\ UNCHANGED <<cvars, xvars,negs, out, write_buf, key, proxy_result, fired,
                   cancel_handles, lock_readers, lock_queue>>

\* Ok(accept) with AuthMethod::Password: the MD5 challenge is sent and flushed;
\* if that write fails authenticate returns Err and client_startup tries to
\* send ErrorResponse("authentication failed")
RouteAcceptPassword(c) ==
    /\ pc[c] = "route"
    /\ auth_method' = [auth_method EXCEPT ![c] = "Password"]
    /\ \/ /\ out' = [out EXCEPT ![c] = Append(@, AuthenticationMD5Password)]
          /\ pc' = [pc EXCEPT ![c] = "auth_read"]
          /\ Did(c, {"accepted", "challenged"})
       \/ /\ SendIgnoringError(c, ErrAuthenticationFailed)
          /\ pc' = [pc EXCEPT ![c] = "done"]
          /\ Did(c, {"accepted", "auth_failed", "notified"})
    /\ UNCHANGED <<cvars, xvars,negs, write_buf, key, proxy_result, fired,
                   cancel_handles, lock_readers, lock_queue>>

\* the client's answer to the challenge: a Password whose hash matches
AuthPasswordOk(c) ==
    /\ pc[c] = "auth_read"
    /\ pc' = [pc EXCEPT ![c] = "connect"]
    /\ Did(c, {"authenticated"})
    /\ UNCHANGED <<cvars, xvars,negs, out, write_buf, key, auth_method, proxy_result, fired,
                   cancel_handles, lock_readers, lock_queue>>

\* a failed authentication after which the connection goes on to the backend
AuthPasswordFailGoingOn(c) ==
    /\ pc[c] = "auth_read"
    /\ SendIgnoringError(c, ErrAuthenticationFailed)
    /\ pc' = [pc EXCEPT ![c] = "connect"]
    /\ Did(c, {"auth_failed", "notified"})
    /\ UNCHANGED <<cvars, xvars,negs, write_buf, key, auth_method, proxy_result, fired,
                   cancel_handles, lock_readers, lock_queue>>

\* a Password that does not match, any other outcome of try_next, or no "user"
AuthPasswordFail(c) ==
    /\ pc[c] = "auth_read"
    /\ SendIgnoringError(c, ErrAuthenticationFailed)
    /\ pc' = [pc EXCEPT ![c] = "done"]
    /\ Did(c, {"auth_failed", "notified"})
    /\ UNCHANGED <<cvars, xvars,negs, write_buf, key, auth_method, proxy_result, fired,
                   cancel_handles, lock_readers, lock_queue>>

(***************************************************************************)
(* handle_conn: backend startup and the replay of the handshake            *)
(***************************************************************************)
\* connect_proxy returns Ok(backend_info) carrying the backend's cancel key
ConnectOk(c) ==
    /\ pc[c] = "connect"
    /\ \E k \in CancelKey : key' = [key EXCEPT ![c] = k]
    /\ pc' = [pc EXCEPT ![c] = "client_init"]
    /\ Did(c, {"connect", "connected"})
    /\ UNCHANGED <<cvars, xvars,negs, out, write_buf, auth_method, proxy_result, fired,
                   cancel_handles, lock_readers, lock_queue>>

\* a connect_proxy error on which handle_conn returns without a word
ConnectErrSilent(c) ==
    /\ pc[c] = "connect"
    /\ pc' = [pc EXCEPT ![c] = "done"]
    /\ Did(c, {"connect", "connect_failed"})
    /\ UNCHANGED <<cvars, xvars,negs, out, write_buf, key, auth_method, proxy_result, fired,
                   cancel_handles, lock_readers, lock_queue>>

\* connect_proxy returns Err
ConnectErr(c) ==
    /\ pc[c] = "connect"
    /\ SendIgnoringError(c, ErrBackendConnectionFailed)
    /\ pc' = [pc EXCEPT ![c] = "done"]
    /\ Did(c, {"connect", "connect_failed", "notified"})
    /\ UNCHANGED <<cvars, xvars,negs, write_buf, key, auth_method, proxy_result, fired,
                   cancel_handles, lock_readers, lock_queue>>

\* complete_client_init: feed AuthenticationOk, the ParameterStatus frames and
\* ReadyForQuery into the sink
ClientInitFeed(c) ==
    /\ pc[c] = "client_init"
    /\ write_buf' = [write_buf EXCEPT ![c] =
                        @ \o <<AuthenticationOk, ParameterStatus, ReadyForQuery>>]
    /\ pc' = [pc EXCEPT ![c] = "client_flush"]
    /\ UNCHANGED <<cvars, xvars,negs, out, key, auth_method, proxy_result, ev, fired,
                   cancel_handles, lock_readers, lock_queue>>

\* complete_client_init: flush; on Ok handle_conn builds the registration and
\* register() asks for the write lock, on Err the client is gone
ClientInitFlush(c) ==
    /\ pc[c] = "client_flush"
    /\ \/ /\ out' = [out EXCEPT ![c] = @ \o write_buf[c]]
          /\ write_buf' = [write_buf EXCEPT ![c] = <<>>]
          /\ pc' = [pc EXCEPT ![c] = "register_wait"]
          /\ lock_queue' = Append(lock_queue, c)
          /\ Did(c, {"replayed"})
       \/ /\ pc' = [pc EXCEPT ![c] = "done"]
          /\ Did(c, {"client_gone"})
          /\ UNCHANGED <<out, write_buf, lock_queue>>
    /\ UNCHANGED <<cvars, xvars,negs, key, auth_method, proxy_result, fired,
                   cancel_handles, lock_readers>>

(***************************************************************************)
(* The cancel registry behind tokio::sync::RwLock (fair: waiters are       *)
(* served in arrival order; a writer needs the lock free of readers).      *)
(* A write guard is taken, used and dropped inside one statement, so a     *)
(* writer's critical section is one step.                                  *)
(***************************************************************************)
\* CancelHandleRegistration::register: lock.write().await.insert(key, handle)
Register(c) ==
    /\ pc[c] = "register_wait"
    /\ lock_queue /= <<>> /\ Head(lock_queue) = c
    /\ lock_readers = {}
    /\ cancel_handles' = MapInsert(cancel_handles, key[c], CancelHandle(c))
    /\ lock_queue' = Tail(lock_queue)
    /\ pc' = [pc EXCEPT ![c] = "write_pending"]
    /\ Did(c, {"registered"})
    /\ UNCHANGED <<cvars, xvars,negs, out, write_buf, key, auth_method, proxy_result, fired,
                   lock_readers>>

\* proxy_data has returned r; handle_conn goes on to AfterProxyData(r)
ProxyDataReturns(c, r) ==
    /\ proxy_result' = [proxy_result EXCEPT ![c] = r]
    /\ pc' = [pc EXCEPT ![c] = AfterProxyData(r)]
    /\ lock_queue' = IF AfterProxyData(r) = "deregister_wait"
                     THEN Append(lock_queue, c) ELSE lock_queue

\* write_pending, first try_join: each side's write_buf to its own socket
WritePendingWriteBufs(c) ==
    /\ pc[c] = "write_pending"
    /\ Did(c, {"relay"})
    /\ \/ /\ pc' = [pc EXCEPT ![c] = "write_pending_read"]
          /\ UNCHANGED <<proxy_result, lock_queue>>
       \/ ProxyDataReturns(c, "err")
    /\ UNCHANGED <<cvars, xvars,negs, out, write_buf, key, auth_method, fired,
                   cancel_handles, lock_readers>>

\* write_pending, second try_join: each side's read_buf to the peer's socket
WritePendingReadBufs(c) ==
    /\ pc[c] = "write_pending_read"
    /\ \/ /\ pc' = [pc EXCEPT ![c] = "copy_bidirectional"]
          /\ UNCHANGED <<proxy_result, lock_queue>>
       \/ ProxyDataReturns(c, "err")
    /\ UNCHANGED <<cvars, xvars,negs, out, write_buf, key, auth_method, ev, fired,
                   cancel_handles, lock_readers>>

\* copy_bidirectional runs until EOF or an I/O error
CopyBidirectional(c) ==
    /\ pc[c] = "copy_bidirectional"
    /\ \E r \in {"ok", "err"} : ProxyDataReturns(c, r)
    /\ UNCHANGED <<cvars, xvars,negs, out, write_buf, key, auth_method, ev, fired,
                   cancel_handles, lock_readers>>

\* CancelHandleRegistration::deregister: lock.write().await.remove(&key)
Deregister(c) ==
    /\ pc[c] = "deregister_wait"
    /\ lock_queue /= <<>> /\ Head(lock_queue) = c
    /\ lock_readers = {}
    /\ cancel_handles' = MapRemove(cancel_handles, key[c])
    /\ lock_queue' = Tail(lock_queue)
    /\ pc' = [pc EXCEPT ![c] = "done"]
    /\ Did(c, {"deregistered"})
    /\ UNCHANGED <<cvars, xvars,negs, out, write_buf, key, auth_method, proxy_result, fired,
                   lock_readers>>

(***************************************************************************)
(* handle_cancel                                                           *)
(***************************************************************************)
\* the read lock is granted and the key is looked up; on Some(handle)
\* cancel_query is called on that handle
CancelLookup(c) ==
    /\ pc[c] = "cancel_wait"
    /\ lock_queue /= <<>> /\ Head(lock_queue) = c
    /\ lock_queue' = Tail(lock_queue)
    /\ LET handle == MapGet(cancel_handles, key[c]) IN
          IF handle /= NoHandle
          THEN /\ fired' = [fired EXCEPT ![c] = Append(@, handle)]
               /\ pc' = [pc EXCEPT ![c] = "cancel_query"]
               /\ lock_readers' = IF GuardHeldDuringCancelQuery
                                  THEN lock_readers \cup {c} ELSE lock_readers
          ELSE /\ pc' = [pc EXCEPT ![c] = "done"]
               /\ UNCHANGED <<fired, lock_readers>>
    /\ UNCHANGED <<cvars, xvars,negs, out, write_buf, key, auth_method, proxy_result, ev,
                   cancel_handles>>

\* a handler that reports the outcome of the cancel to the requesting client
CancelQueryReturnsReplying(c) ==
    /\ pc[c] = "cancel_query"
    /\ lock_readers' = lock_readers \ {c}
    /\ pc' = [pc EXCEPT ![c] = "done"]
    /\ Did(c, {"cancel_returned"})
    /\ out' = [out EXCEPT ![c] = Append(@, "ErrorResponse(canceling statement)")]
    /\ UNCHANGED <<cvars, xvars,negs, write_buf, key, auth_method, proxy_result, fired,
                   cancel_handles, lock_queue>>

\* cancel_query(tls).await completes (its result is dropped); the if-let body
\* ends and the read guard is dropped
CancelQueryReturns(c) ==
    /\ pc[c] = "cancel_query"
    /\ lock_readers' = lock_readers \ {c}
    /\ pc' = [pc EXCEPT ![c] = "done"]
    /\ Did(c, {"cancel_returned"})
    /\ UNCHANGED <<cvars, xvars,negs, out, write_buf, key, auth_method, proxy_result, fired,
                   cancel_handles, lock_queue>>

(***************************************************************************)
(* The task running handle_conn is dropped at a suspension point (abort,   *)
(* runtime shutdown): its locals are dropped, among them a pending lock    *)
(* request and a read guard.  CancelHandleRegistration has no Drop impl.   *)
(***************************************************************************)
Abort(c) ==
    /\ pc[c] \notin {"done", "aborted"}
    /\ pc' = [pc EXCEPT ![c] = "aborted"]
    /\ lock_queue' = Without(lock_queue, c)
    /\ lock_readers' = lock_readers \ {c}
    /\ UNCHANGED <<cvars, xvars,negs, out, write_buf, key, auth_method, proxy_result, ev, fired,
                   cancel_handles>>

ONext ==
    \E c \in Conn :
        \/ ReadNegotiation(c) \/ ReadCancel(c) \/ ReadStartup(c) \/ ReadFail(c)
        \/ RouteReject(c) \/ RouteAcceptTrust(c) \/ RouteAcceptPassword(c)
        \/ AuthPasswordOk(c) \/ AuthPasswordFail(c)
        \/ ConnectOk(c) \/ ConnectErr(c)
        \/ ClientInitFeed(c) \/ ClientInitFlush(c)
        \/ Register(c)
        \/ WritePendingWriteBufs(c) \/ WritePendingReadBufs(c) \/ CopyBidirectional(c)
        \/ Deregister(c)
        \/ CancelLookup(c) \/ CancelQueryReturns(c)
        \/ Abort(c)

(***************************************************************************)
(* Bytes and big-endian integers                                           *)
(***************************************************************************)
Byte == 0..255

\* A u32 does not fit the checker's integers above 2^31 - 1, so a 32-bit
\* big-endian word stays a sequence of 4 bytes; it is compared as unsigned
\* and turned into a number only where it is known to be small.
Low31(b) == (b[1] % 128) * 16777216 + b[2] * 65536 + b[3] * 256 + b[4]

\* unsigned comparisons of the word b with a number n < 2^31
U32Lt(b, n) == b[1] < 128 /\ Low31(b) < n
U32Gt(b, n) == b[1] >= 128 \/ Low31(b) > n
U32Eq(b, n) == b[1] < 128 /\ Low31(b) = n

\* read_u32::<BigEndian>() as usize, for a word below 2^31
BigEndianU32(b) == Low31(b)

\* read_i32::<BigEndian>: the same 32 bits read as two's complement
BigEndianI32(b) ==
    IF b[1] >= 128 THEN (Low31(b) - 2147483647) - 1 ELSE Low31(b)

\* the 4 bytes of n, most significant first (two's complement for n < 0)
PutU32(n) ==
    LET m == IF n < 0 THEN (n + 2147483647) + 1 ELSE n IN
    <<(IF n < 0 THEN 128 ELSE 0) + m \div 16777216,
      (m \div 65536) % 256, (m \div 256) % 256, m % 256>>

(***************************************************************************)
(* message/shared.rs: Buffer, a cursor `idx` over `bytes`                  *)
(***************************************************************************)
\* &self.bytes[self.idx..] aborts when idx is past the end
BufferSliceInBounds(b) == b.idx <= Len(b.bytes)

\* Buffer::slice
BufferSlice(b) == SubSeq(b.bytes, b.idx + 1, Len(b.bytes))

\* a cursor that is never asked whether bytes are left
BufferIsEmptyUnchecked(b) == TRUE

\* Buffer::is_empty
BufferIsEmpty(b) == BufferSlice(b) = <<>>

\* memchr(0, slice): 0-based position of the first 0 byte, or -1 for None
Memchr0(s) ==
    IF \E i \in 1..Len(s) : s[i] = 0
    THEN (CHOOSE i \in 1..Len(s) : s[i] = 0 /\ \A j \in 1..(i - 1) : s[j] /= 0) - 1
    ELSE -1

\* Buffer::read_cstr
BufferReadCstr(b) ==
    LET pos == Memchr0(BufferSlice(b)) IN
    IF pos >= 0
    THEN [ok |-> TRUE, val |-> SubSeq(b.bytes, b.idx + 1, b.idx + pos),
          buf |-> [b EXCEPT !.idx = b.idx + pos + 1]]
    ELSE [ok |-> FALSE, val |-> <<>>, buf |-> b]

\* Buffer::read_all
BufferReadAll(b) ==
    [ok |-> TRUE, val |-> BufferSlice(b), buf |-> [b EXCEPT !.idx = Len(b.bytes)]]

\* <Buffer as Read>::read_exact of 4 bytes, through Read::read: fails with
\* UnexpectedEof when fewer than 4 bytes are left (the cursor has then moved
\* to the end)
BufferRead4(b) ==
    IF Len(BufferSlice(b)) >= 4
    THEN [ok |-> TRUE, val |-> SubSeq(BufferSlice(b), 1, 4),
          buf |-> [b EXCEPT !.idx = b.idx + 4]]
    ELSE [ok |-> FALSE, val |-> <<>>, buf |-> [b EXCEPT !.idx = Len(b.bytes)]]

(***************************************************************************)
(* message/startup.rs: StartupRequest::parse_without_tag / parse_with_tag  *)
(***************************************************************************)
MIN_STARTUP_LEN == 4
MAX_STARTUP_LEN == 10000

STARTUP_CODE == 196608
CANCEL_REQUEST_CODE == 80877102
SSL_REQUEST_CODE == 80877103
GSS_ENC_REQUEST_CODE == 80877104

\* b'p'
TAG_PASSWORD == 112

NoMsg == [type |-> "none", data |-> <<>>, process_id |-> 0, secret_key |-> 0]
Startup(data) == [NoMsg EXCEPT !.type = "Startup", !.data = data]
Cancel(pid, secret) ==
    [NoMsg EXCEPT !.type = "Cancel", !.process_id = pid, !.secret_key = secret]
SSLRequest == [NoMsg EXCEPT !.type = "SSLRequest"]
GSSEncRequest == [NoMsg EXCEPT !.type = "GSSEncRequest"]
Password(data) == [NoMsg EXCEPT !.type = "Password", !.data = data]

\* Ok(None), Ok(Some(message)), Err(kind); Aborted is a panic of the call
OkNone == [kind |-> "None", err |-> "", msg |-> NoMsg]
OkSome(m) == [kind |-> "Some", err |-> "", msg |-> m]
Err(e) == [kind |-> "Err", err |-> e, msg |-> NoMsg]
Aborted == [kind |-> "Panic", err |-> "", msg |-> NoMsg]
NoResult == [kind |-> "NotCalled", err |-> "", msg |-> NoMsg]

\* the upper limit taken as exclusive (`len >= MAX_STARTUP_LEN`)
StartupLenInRangeExclusive(len) ==
    ~U32Lt(len, MIN_STARTUP_LEN) /\ ~U32Gt(len, MAX_STARTUP_LEN - 1)

\* `len < MIN_STARTUP_LEN` / `len > MAX_STARTUP_LEN` both return Err; len is
\* the 4-byte length word
StartupLenInRange(len) == ~U32Lt(len, MIN_STARTUP_LEN) /\ ~U32Gt(len, MAX_STARTUP_LEN)

\* parse_without_tag: `if buf.len() < len { return Ok(None) }`
UntaggedFrameBuffered(buf, len) == ~(Len(buf) < len)

\* parse_with_tag: `if buf.len() < len { return Ok(None) }`
TaggedFrameBuffered(buf, len) == ~(Len(buf) < len)

\* buf.split_to(len): the bytes taken off the front of buf
SplitTo(buf, len) == SubSeq(buf, 1, len)

\* what stays in buf after `taken` was split off
AfterSplit(buf, taken) == SubSeq(buf, Len(taken) + 1, Len(buf))

\* the `match code` of parse_without_tag, b being the cursor after the code
UntaggedMessage(code, b) ==
    IF U32Eq(code, STARTUP_CODE)
    THEN LET d == BufferReadAll(b) IN [ok |-> TRUE, err |-> "", msg |-> Startup(d.val), buf |-> d.buf]
    ELSE IF U32Eq(code, CANCEL_REQUEST_CODE)
    THEN LET p == BufferRead4(b) IN
         IF ~p.ok THEN [ok |-> FALSE, err |-> "UnexpectedEof", msg |-> NoMsg, buf |-> p.buf]
         ELSE LET s == BufferRead4(p.buf) IN
              IF ~s.ok THEN [ok |-> FALSE, err |-> "UnexpectedEof", msg |-> NoMsg, buf |-> s.buf]
              ELSE [ok |-> TRUE, err |-> "",
                    msg |-> Cancel(BigEndianI32(p.val), BigEndianI32(s.val)), buf |-> s.buf]
    ELSE IF U32Eq(code, SSL_REQUEST_CODE)
    THEN [ok |-> TRUE, err |-> "", msg |-> SSLRequest, buf |-> b]
    ELSE IF U32Eq(code, GSS_ENC_REQUEST_CODE)
    THEN [ok |-> TRUE, err |-> "", msg |-> GSSEncRequest, buf |-> b]
    ELSE [ok |-> FALSE, err |-> "InvalidInput", msg |-> NoMsg, buf |-> b]

\* parse_without_tag from `let mut buf = Buffer {..}` on: b is the frame
UntaggedFrame(b) ==
    LET c == BufferRead4(b) IN
    IF ~c.ok THEN Err("UnexpectedEof")
    ELSE LET m == UntaggedMessage(c.val, c.buf) IN
         IF ~m.ok THEN Err(m.err)
         ELSE IF ~BufferIsEmpty(m.buf) THEN Err("InvalidInput")
         ELSE OkSome(m.msg)

\* StartupRequest::parse_without_tag: the result and what is left in buf
ParseWithoutTag(buf) ==
    IF Len(buf) < 4 THEN [res |-> OkNone, buf |-> buf]
    ELSE LET len == BigEndianU32(SubSeq(buf, 1, 4)) IN
         IF ~StartupLenInRange(SubSeq(buf, 1, 4)) THEN [res |-> Err("InvalidInput"), buf |-> buf]
         ELSE IF ~UntaggedFrameBuffered(buf, len) THEN [res |-> OkNone, buf |-> buf]
         ELSE LET bytes == SplitTo(buf, len) IN
              [res |-> UntaggedFrame([bytes |-> bytes, idx |-> 4]),
               buf |-> AfterSplit(buf, bytes)]

\* a tagged parser that reads a cstring whatever the tag is
TaggedFrameAnyTag(tag, b) ==
    IF ~BufferSliceInBounds(b) THEN Aborted
    ELSE LET passwd == BufferReadCstr(b) IN
         IF ~passwd.ok THEN Err("UnexpectedEof")
         ELSE IF ~BufferIsEmpty(passwd.buf) THEN Err("InvalidInput")
         ELSE OkSome(Password(passwd.val))

\* parse_with_tag from `let mut buf = Buffer {.., idx: 5}` on
TaggedFrame(tag, b) ==
    IF tag = TAG_PASSWORD
    THEN IF ~BufferSliceInBounds(b) THEN Aborted
         ELSE LET passwd == BufferReadCstr(b) IN
              IF ~passwd.ok THEN Err("UnexpectedEof")
              ELSE IF ~BufferIsEmpty(passwd.buf) THEN Err("InvalidInput")
              ELSE OkSome(Password(passwd.val))
    ELSE Err("InvalidInput")

\* StartupRequest::parse_with_tag
ParseWithTag(buf) ==
    IF Len(buf) < 5 THEN [res |-> OkNone, buf |-> buf]
    ELSE LET len == BigEndianU32(SubSeq(buf, 2, 5)) IN
         IF ~StartupLenInRange(SubSeq(buf, 2, 5)) THEN [res |-> Err("InvalidInput"), buf |-> buf]
         ELSE IF ~TaggedFrameBuffered(buf, len) THEN [res |-> OkNone, buf |-> buf]
         ELSE LET bytes == SplitTo(buf, len) IN
              [res |-> TaggedFrame(buf[1], [bytes |-> bytes, idx |-> 5]),
               buf |-> AfterSplit(buf, bytes)]

(***************************************************************************)
(* proxy/startup.rs: StartupCodec::decode calls StartupRequest::parse, and *)
(* mod.rs builds the codec with StartupCodec::new().  The dispatch on the  *)
(* phase flag follows the design document, section 4.2: un-tagged until a  *)
(* Startup was decoded, tagged afterwards.                                 *)
(***************************************************************************)
StartupCodecNew == FALSE

StartupCodecDecode(seen, buf) ==
    LET r == IF seen THEN ParseWithTag(buf) ELSE ParseWithoutTag(buf) IN
    [res |-> r.res, buf |-> r.buf,
     seen |-> seen \/ (r.res.kind = "Some" /\ r.res.msg.type = "Startup")]

(***************************************************************************)
(* Client input: up to MaxFrames chunks, each a frame or a malformed one   *)
(***************************************************************************)
\* chunks a client sends on one connection
MaxFrames == 2

UntaggedChunk(len, code, body) == PutU32(len) \o PutU32(code) \o body
TaggedChunk(tag, len, body) == <<tag>> \o PutU32(len) \o body

Catalog ==
    { \* well-formed un-tagged frames
      UntaggedChunk(8, SSL_REQUEST_CODE, <<>>),
      UntaggedChunk(8, GSS_ENC_REQUEST_CODE, <<>>),
      UntaggedChunk(16, CANCEL_REQUEST_CODE, PutU32(42) \o PutU32(99)),
      UntaggedChunk(16, CANCEL_REQUEST_CODE, PutU32(-1) \o PutU32(-2147483647)),
      UntaggedChunk(13, STARTUP_CODE, <<117, 0, 120, 0, 0>>),
      \* fixed-size requests with a longer len
      UntaggedChunk(9, SSL_REQUEST_CODE, <<0>>),
      UntaggedChunk(10, GSS_ENC_REQUEST_CODE, <<7, 7>>),
      UntaggedChunk(17, CANCEL_REQUEST_CODE, PutU32(42) \o PutU32(99) \o <<0>>),
      \* a Cancel cut short, an unknown code
      UntaggedChunk(12, CANCEL_REQUEST_CODE, PutU32(42)),
      UntaggedChunk(8, 12345, <<>>),
      \* length prefixes around the limits
      PutU32(3), PutU32(4),
      PutU32(7) \o <<0, 3, 0>>,
      PutU32(10000), PutU32(10001), PutU32(-1),
      \* tagged frames: len without the tag, len counting the tag, other tags
      TaggedChunk(TAG_PASSWORD, 6, <<120, 0>>),
      TaggedChunk(TAG_PASSWORD, 7, <<120, 0>>),
      TaggedChunk(TAG_PASSWORD, 5, <<0>>),
      TaggedChunk(TAG_PASSWORD, 8, <<120, 0, 121, 0>>),
      TaggedChunk(TAG_PASSWORD, 4, <<>>),
      TaggedChunk(113, 4, <<>>),
      TaggedChunk(113, 6, <<120, 0>>),
      TaggedChunk(TAG_PASSWORD, 10001, <<>>) }

RECURSIVE Inputs(_)
Inputs(n) ==
    IF n = 0 THEN {<<>>}
    ELSE Inputs(n - 1) \cup {a \o b : a \in Catalog, b \in Inputs(n - 1)}

(***************************************************************************)
(* The framed stream: bytes arrive, decode is called on the read buffer    *)
(***************************************************************************)
CInit ==
    /\ wire \in Inputs(MaxFrames)
    /\ read_buf = <<>>
    /\ seen_client_startup = StartupCodecNew
    /\ stream = "open"
    /\ result = NoResult
    /\ prev_buf = <<>>
    /\ prev_seen = FALSE
    /\ rest_buf = <<>>

\* the codec stream is not in use
CIdle ==
    /\ wire = <<>>
    /\ read_buf = <<>>
    /\ seen_client_startup = StartupCodecNew
    /\ stream = "open"
    /\ result = NoResult
    /\ prev_buf = <<>>
    /\ prev_seen = FALSE
    /\ rest_buf = <<>>

\* Framed reads from the socket into its read buffer
Recv ==
    /\ stream = "open"
    /\ wire /= <<>>
    /\ read_buf' = Append(read_buf, Head(wire))
    /\ wire' = Tail(wire)
    /\ UNCHANGED <<ovars, xvars, seen_client_startup, stream, result, prev_buf, prev_seen,
                   rest_buf>>

\* Framed calls StartupCodec::decode on its read buffer; after an Err (or a
\* panic) the stream yields nothing more
Decode ==
    /\ stream = "open"
    /\ LET d == StartupCodecDecode(seen_client_startup, read_buf) IN
          /\ result' = d.res
          /\ read_buf' = d.buf
          /\ rest_buf' = d.buf
          /\ seen_client_startup' = d.seen
          /\ stream' = IF d.res.kind \in {"Err", "Panic"} THEN "failed" ELSE "open"
    /\ prev_buf' = read_buf
    /\ prev_seen' = seen_client_startup
    /\ UNCHANGED <<ovars, xvars, wire>>

CNext == Recv \/ Decode

(***************************************************************************)
(* StartupResponse and StartupResponse::encode                             *)
(***************************************************************************)
NoItem == [type |-> "none", ok |-> FALSE, salt |-> <<>>, err |-> <<>>,
           key |-> <<>>, value |-> <<>>]
RespAuthenticationOk == [NoItem EXCEPT !.type = "AuthenticationOk"]
RespAuthenticationMD5Password(salt) ==
    [NoItem EXCEPT !.type = "AuthenticationMD5Password", !.salt = salt]
RespSSLResponse(ok) == [NoItem EXCEPT !.type = "SSLResponse", !.ok = ok]
RespGSSEncResponse(ok) == [NoItem EXCEPT !.type = "GSSEncResponse", !.ok = ok]
RespErrorResponse(err) == [NoItem EXCEPT !.type = "ErrorResponse", !.err = err]
RespParameterStatus(k, v) ==
    [NoItem EXCEPT !.type = "ParameterStatus", !.key = k, !.value = v]
RespReadyForQuery == [NoItem EXCEPT !.type = "ReadyForQuery"]

\* a length that leaves the message's closing 0 byte out
ErrorResponseLenShort(err_bytes) == 4 + (1 + 5 + 1) + (1 + Len(err_bytes) + 1)

\* let len = 4 + (1 + 5 + 1) + (1 + err_bytes.len() + 1) + 1
ErrorResponseLen(err_bytes) == 4 + (1 + 5 + 1) + (1 + Len(err_bytes) + 1) + 1

\* let len = 4 + (key_bytes.len() + 1) + (value_bytes.len() + 1)
ParameterStatusLen(key_bytes, value_bytes) ==
    4 + (Len(key_bytes) + 1) + (Len(value_bytes) + 1)

\* the bytes one call of encode puts after what dst already holds
EncodedBytes(r) ==
    CASE r.type = "AuthenticationOk" -> <<82>> \o PutU32(8) \o PutU32(0)
      [] r.type = "AuthenticationMD5Password" ->
            <<82>> \o PutU32(12) \o r.salt \o PutU32(0)
      [] r.type = "SSLResponse" -> <<IF r.ok THEN 83 ELSE 78>>
      [] r.type = "GSSEncResponse" -> <<IF r.ok THEN 71 ELSE 78>>
      [] r.type = "ErrorResponse" ->
            <<69>> \o PutU32(ErrorResponseLen(r.err))
                   \o <<83>> \o <<70, 65, 84, 65, 76>> \o <<0>>
                   \o <<77>> \o r.err \o <<0>>
                   \o <<0>>
      [] r.type = "ParameterStatus" ->
            <<83>> \o PutU32(ParameterStatusLen(r.key, r.value))
                   \o r.key \o <<0>> \o r.value \o <<0>>
      [] r.type = "ReadyForQuery" -> <<90>> \o PutU32(5) \o <<73>>

\* StartupResponse::encode(&self, dst)
Encode(r, buf) == buf \o EncodedBytes(r)

\* encode is called while fewer than MaxPending bytes are pending in dst
MaxPending == 3

Salts == {<<0, 0, 0, 0>>, <<1, 2, 3, 4>>, <<255, 0, 112, 7>>}
Texts == {<<>>, <<97>>, <<97, 98>>, <<0>>}

Responses ==
    {RespAuthenticationOk, RespReadyForQuery}
    \cup {RespAuthenticationMD5Password(s) : s \in Salts}
    \cup {RespSSLResponse(b) : b \in BOOLEAN}
    \cup {RespGSSEncResponse(b) : b \in BOOLEAN}
    \cup {RespErrorResponse(t) : t \in Texts}
    \cup {RespParameterStatus(k, v) : k \in Texts, v \in Texts}

EIdle ==
    /\ dst = <<>>
    /\ dst_before = <<>>
    /\ item = NoItem

EncodeItem ==
    /\ Len(dst) < MaxPending
    /\ \E r \in Responses :
          /\ item' = r
          /\ dst_before' = dst
          /\ dst' = Encode(r, dst)
    /\ UNCHANGED <<ovars, cvars, rvars, hvars, pvars, dvars, svars>>

(***************************************************************************)
(* handle_conn from connect_proxy on, and complete_client_init, for one    *)
(* connection and with the parameters spelled out                          *)
(***************************************************************************)
\* String's Ord: byte-wise lexicographic order
RECURSIVE StrLess(_, _)
StrLess(a, b) ==
    IF a = <<>> THEN b /= <<>>
    ELSE IF b = <<>> THEN FALSE
    ELSE IF a[1] < b[1] THEN TRUE
    ELSE IF a[1] > b[1] THEN FALSE
    ELSE StrLess(Tail(a), Tail(b))

\* keys and values a backend reports ("B" < "a" < "ab" in byte order)
ParamKeys == {<<66>>, <<97>>, <<97, 98>>}
ParamValues == {<<120>>, <<121>>}

\* HashMap<String, String>: at most one value per key
ParamMaps == UNION {[ks -> ParamValues] : ks \in SUBSET ParamKeys}

\* backend_info.parameters.iter().map(..).collect::<Vec<_>>(): the pairs of the
\* map, each once, in the order the HashMap happens to iterate
IterOrders(m) ==
    {[i \in 1..Cardinality(DOMAIN m) |-> <<f[i], m[f[i]]>>] :
        f \in {g \in [1..Cardinality(DOMAIN m) -> DOMAIN m] :
                 \A i, j \in 1..Cardinality(DOMAIN m) : i /= j => g[i] /= g[j]}}

\* p put into the sorted s behind every pair whose key is not greater
RECURSIVE InsertByKey(_, _)
InsertByKey(p, s) ==
    IF s = <<>> THEN <<p>>
    ELSE IF StrLess(p[1], s[1][1]) THEN <<p>> \o s
    ELSE <<s[1]>> \o InsertByKey(p, Tail(s))

\* a replay that keeps the order of iteration
SortByKeyKeepingOrder(v) == v

\* parameters.sort_by(|a, b| a.0.cmp(&b.0)): stable, ascending by key
RECURSIVE SortByKey(_)
SortByKey(v) ==
    IF v = <<>> THEN <<>>
    ELSE InsertByKey(v[Len(v)], SortByKey(SubSeq(v, 1, Len(v) - 1)))

\* Framed's poll_ready writes the sink out first when it holds too much
FeedInto(buffered, early) == IF early THEN <<>> ELSE buffered
WrittenBy(written, buffered, early) == IF early THEN written \o buffered ELSE written

PIdle ==
    /\ replay_pc = "idle"
    /\ backend_info = "none"
    /\ backend_parameters = <<>>
    /\ parameters = <<>>
    /\ sink = <<>>
    /\ client_io = <<>>

\* client_startup has returned Some(accept)
PInit ==
    /\ replay_pc = "connect"
    /\ backend_info = "none"
    /\ backend_parameters = <<>>
    /\ parameters = <<>>
    /\ sink = <<>>
    /\ client_io = <<>>

\* connect_proxy returns Ok(backend_info)
ReplayConnectOk ==
    /\ replay_pc = "connect"
    /\ backend_info' = "ok"
    /\ \E m \in ParamMaps : backend_parameters' = m
    /\ replay_pc' = "feed_authentication_ok"
    /\ UNCHANGED <<ovars, cvars, rvars, hvars, evars, dvars, svars, parameters, sink, client_io>>

\* a handler that goes on to the replay after the connector failed
ReplayConnectErrGoingOn ==
    /\ replay_pc = "connect"
    /\ backend_info' = "err"
    /\ replay_pc' = "feed_authentication_ok"
    /\ UNCHANGED <<ovars, cvars, rvars, hvars, evars, dvars, svars, backend_parameters, parameters, sink, client_io>>

\* connect_proxy returns Err: ErrorResponse is sent, its result dropped, return
ReplayConnectErr ==
    /\ replay_pc = "connect"
    /\ backend_info' = "err"
    /\ \E ok \in BOOLEAN :
          client_io' = IF ok
                  THEN Append(client_io, RespErrorResponse(<<98, 97, 99, 107>>))
                  ELSE client_io
    /\ replay_pc' = "closed"
    /\ UNCHANGED <<ovars, cvars, rvars, hvars, evars, dvars, svars, backend_parameters, parameters, sink>>

\* feed(AuthenticationOk); on Ok the parameters are collected and sorted
ReplayFeedAuthenticationOk ==
    /\ replay_pc = "feed_authentication_ok"
    /\ \/ /\ sink' = Append(sink, RespAuthenticationOk)
          /\ \E v \in IterOrders(backend_parameters) : parameters' = SortByKey(v)
          /\ replay_pc' = "feed_parameters"
          /\ UNCHANGED client_io
       \/ /\ replay_pc' = "closed"
          /\ UNCHANGED <<parameters, sink, client_io>>
    /\ UNCHANGED <<ovars, cvars, rvars, hvars, evars, dvars, svars, backend_info, backend_parameters>>

\* for (key, value) in parameters { feed(ParameterStatus { key, value }) }
ReplayFeedParameterStatus ==
    /\ replay_pc = "feed_parameters"
    /\ parameters /= <<>>
    /\ \/ \E early \in BOOLEAN :
             /\ sink' = Append(FeedInto(sink, early),
                               RespParameterStatus(parameters[1][1], parameters[1][2]))
             /\ client_io' = WrittenBy(client_io, sink, early)
             /\ parameters' = Tail(parameters)
             /\ replay_pc' = replay_pc
       \/ /\ replay_pc' = "closed"
          /\ UNCHANGED <<parameters, sink, client_io>>
    /\ UNCHANGED <<ovars, cvars, rvars, hvars, evars, dvars, svars, backend_info, backend_parameters>>

\* feed(ReadyForQuery), after the loop
ReplayFeedReadyForQuery ==
    /\ replay_pc = "feed_parameters"
    /\ parameters = <<>>
    /\ \/ \E early \in BOOLEAN :
             /\ sink' = Append(FeedInto(sink, early), RespReadyForQuery)
             /\ client_io' = WrittenBy(client_io, sink, early)
             /\ replay_pc' = "flush"
       \/ /\ replay_pc' = "closed"
          /\ UNCHANGED <<sink, client_io>>
    /\ UNCHANGED <<ovars, cvars, rvars, hvars, evars, dvars, svars, backend_info, backend_parameters, parameters>>

\* flush(); Ok(()) lets handle_conn go on to the registration
ReplayFlush ==
    /\ replay_pc = "flush"
    /\ \/ /\ client_io' = client_io \o sink
          /\ sink' = <<>>
          /\ replay_pc' = "replayed"
       \/ /\ replay_pc' = "closed"
          /\ UNCHANGED <<sink, client_io>>
    /\ UNCHANGED <<ovars, cvars, rvars, hvars, evars, dvars, svars, backend_info, backend_parameters, parameters>>

PNext ==
    \/ ReplayConnectOk \/ ReplayConnectErr
    \/ ReplayFeedAuthenticationOk \/ ReplayFeedParameterStatus
    \/ ReplayFeedReadyForQuery \/ ReplayFlush

(***************************************************************************)
(* StartupData::parse                                                      *)
(***************************************************************************)
\* a continuation byte of UTF-8
Utf8Cont(x) == x >= 128 /\ x <= 191

\* String::from_utf8(..).is_ok(): well-formed UTF-8, shortest forms only,
\* no surrogates, nothing above U+10FFFF
RECURSIVE IsUtf8(_)
IsUtf8(s) ==
    IF s = <<>> THEN TRUE
    ELSE LET b == s[1] IN
         IF b <= 127 THEN IsUtf8(Tail(s))
         ELSE IF b >= 194 /\ b <= 223
         THEN /\ Len(s) >= 2 /\ Utf8Cont(s[2])
              /\ IsUtf8(SubSeq(s, 3, Len(s)))
         ELSE IF b >= 224 /\ b <= 239
         THEN /\ Len(s) >= 3 /\ Utf8Cont(s[2]) /\ Utf8Cont(s[3])
              /\ (b = 224 => s[2] >= 160)
              /\ (b = 237 => s[2] <= 159)
              /\ IsUtf8(SubSeq(s, 4, Len(s)))
         ELSE IF b >= 240 /\ b <= 244
         THEN /\ Len(s) >= 4 /\ Utf8Cont(s[2]) /\ Utf8Cont(s[3]) /\ Utf8Cont(s[4])
              /\ (b = 240 => s[2] >= 144)
              /\ (b = 244 => s[2] <= 143)
              /\ IsUtf8(SubSeq(s, 5, Len(s)))
         ELSE FALSE

\* the items the from_fn closure yields until it first returns None: a key
\* that cannot be read, an empty key, a value that cannot be read and a key
\* that is not UTF-8 each end the iteration
RECURSIVE PairsFromFn(_)
PairsFromFn(buf) ==
    LET k == BufferReadCstr(buf) IN
    IF ~k.ok THEN <<>>
    ELSE IF k.val = <<>> THEN <<>>
    ELSE LET v == BufferReadCstr(k.buf) IN
         IF ~v.ok THEN <<>>
         ELSE IF ~IsUtf8(k.val) THEN <<>>
         ELSE <<<<k.val, v.val>>>> \o PairsFromFn(v.buf)

\* HashMap::from_iter: the last value given for a key is the one kept
HashMapFromIter(ps) ==
    [k \in {ps[i][1] : i \in 1..Len(ps)} |->
        ps[CHOOSE i \in 1..Len(ps) :
              /\ ps[i][1] = k
              /\ \A j \in (i + 1)..Len(ps) : ps[j][1] /= k][2]]

\* StartupData::parse(bytes): always Ok(StartupData { parameters })
StartupDataParse(bytes) ==
    HashMapFromIter(PairsFromFn([bytes |-> bytes, idx |-> 0]))

NotParsed == [parsed |-> FALSE, parameters |-> <<>>]
Parsed(m) == [parsed |-> TRUE, parameters |-> m]

\* pairs a client puts into one payload, at most
MaxPairs == 3

\* keys "a", "b", a byte that is no UTF-8, "é"; values "x", "y", a raw byte
PairCatalog ==
    {<<k, v>> : k \in {<<97>>, <<98>>, <<255>>}, v \in {<<120>>, <<121>>}}
    \cup {<<<<195, 169>>, <<255>>>>, <<<<97>>, <<>>>>}

RECURSIVE PairSeqs(_)
PairSeqs(n) ==
    IF n = 0 THEN {<<>>}
    ELSE PairSeqs(n - 1)
         \cup {Append(s, p) : s \in {t \in PairSeqs(n - 1) : Len(t) = n - 1},
                              p \in PairCatalog}

\* <cstring key><cstring value> for each pair
RECURSIVE PairBytes(_)
PairBytes(ps) ==
    IF ps = <<>> THEN <<>>
    ELSE ps[1][1] \o <<0>> \o ps[1][2] \o <<0>> \o PairBytes(Tail(ps))

DIdle ==
    /\ pairs = <<>>
    /\ raw = <<>>
    /\ startup_data = NotParsed

\* a payload: pairs, then the empty key that ends it, or nothing where the
\* client left it out
DInit ==
    /\ pairs \in PairSeqs(MaxPairs)
    /\ \E ended \in BOOLEAN :
          raw = PairBytes(pairs) \o (IF ended THEN <<0>> ELSE <<>>)
    /\ startup_data = NotParsed

ParseStartupData ==
    /\ ~startup_data.parsed
    /\ startup_data' = Parsed(StartupDataParse(raw))
    /\ UNCHANGED <<ovars, cvars, rvars, hvars, evars, pvars, svars, pairs, raw>>

(***************************************************************************)
(* proxy/mod.rs client_startup, with proxy/startup.rs                      *)
(* read_frontend_startup and proxy/auth.rs authenticate, on one            *)
(* connection whose client bytes go through Framed and the StartupCodec    *)
(***************************************************************************)
\* Framed yields None: the read side ended and nothing is left to decode
EndOfStream == [kind |-> "End", err |-> "", msg |-> NoMsg]

\* Framed::poll_next with is_readable set: decode, and once the read side
\* ended decode_eof, which turns a None over left-over bytes into an error
FramedDecode(seen, buf, ended) ==
    LET d == StartupCodecDecode(seen, buf) IN
    IF d.res.kind = "None" /\ ended
    THEN IF d.buf = <<>> THEN [d EXCEPT !.res = EndOfStream]
         ELSE [d EXCEPT !.res = Err("Other")]
    ELSE d

\* what the pending try_next gets from the buffer as it is
Polled == FramedDecode(codec, buffer, eof)

\* the buffer and the codec after that decode call
Took(polled) == buffer' = polled.buf /\ codec' = polled.seen

\* the awaits of client_startup that are a try_next
AwaitsRequest == at \in {"reader", "auth_read"}

\* read_frontend_startup's answer to a negotiation request
ReaderReplyAccepting(msg) ==
    IF msg.type = "SSLRequest" THEN RespSSLResponse(TRUE) ELSE RespGSSEncResponse(TRUE)

ReaderReply(msg) ==
    IF msg.type = "SSLRequest" THEN RespSSLResponse(FALSE) ELSE RespGSSEncResponse(FALSE)

AuthenticationFailedText ==
    <<97, 117, 116, 104, 101, 110, 116, 105, 99, 97, 116, 105, 111, 110, 32,
      102, 97, 105, 108, 101, 100>>

ConnectionRejectedText ==
    <<99, 111, 110, 110, 101, 99, 116, 105, 111, 110, 32,
      114, 101, 106, 101, 99, 116, 101, 100>>

UserKey == <<117, 115, 101, 114>>

\* AuthMethod::Password(expected_password) of the accepted route
ExpectedPassword == <<112, 119>>

\* salts rng.fill_bytes puts into the challenge
ChallengeSalts == {<<1, 2, 3, 4>>, <<9, 9, 9, 9>>}

\* postgres_protocol::authentication::md5_hash: "md5" and a digest of the
\* three inputs; the digest is kept as the inputs themselves, so that two
\* hashes are equal exactly when the inputs are
Md5Hash(username, password, s) == <<109, 100, 53>> \o username \o password \o s

\* constant_time_eq::constant_time_eq
ConstantTimeEq(a, b) == a = b

\* auth.rs md5_password_equal
Md5PasswordEqual(expected_password, received_hash, sd, s) ==
    IF UserKey \notin DOMAIN sd.parameters THEN FALSE
    ELSE ConstantTimeEq(received_hash,
                        Md5Hash(sd.parameters[UserKey], expected_password, s))

\* chunks a client sends on one connection, at most
MaxRequests == 3

\* the user name of the client
ClientUser == <<117>>

\* the hash a client computes for the first salt
ClientHash == Md5Hash(ClientUser, ExpectedPassword, <<1, 2, 3, 4>>)

\* 'p' u32(len) hash 0, len counting itself and the payload
PasswordFrame(h) == TaggedChunk(TAG_PASSWORD, 4 + Len(h) + 1, h \o <<0>>)

\* the same frame with a len that counts the tag byte as well
PasswordFrameCountingTag(h) == TaggedChunk(TAG_PASSWORD, 1 + 4 + Len(h) + 1, h \o <<0>>)

StartupFrameWithUser ==
    UntaggedChunk(16, STARTUP_CODE, UserKey \o <<0>> \o ClientUser \o <<0, 0>>)

StartupFrameWithoutUser == UntaggedChunk(9, STARTUP_CODE, <<0>>)

UnknownCodeFrame == UntaggedChunk(8, 12345, <<>>)

ClientChunks ==
    { UntaggedChunk(8, SSL_REQUEST_CODE, <<>>),
      UntaggedChunk(8, GSS_ENC_REQUEST_CODE, <<>>),
      UntaggedChunk(16, CANCEL_REQUEST_CODE, PutU32(42) \o PutU32(99)),
      StartupFrameWithUser,
      StartupFrameWithoutUser,
      UnknownCodeFrame,
      PasswordFrame(ClientHash),
      PasswordFrameCountingTag(ClientHash),
      \* a Terminate frame and a Password frame of len 4
      TaggedChunk(88, 4, <<>>),
      TaggedChunk(TAG_PASSWORD, 4, <<>>) }

RECURSIVE ChunkSeqs(_)
ChunkSeqs(n) ==
    IF n = 0 THEN {<<>>}
    ELSE ChunkSeqs(n - 1)
         \cup {Append(s, c) : s \in {t \in ChunkSeqs(n - 1) : Len(t) = n - 1},
                              c \in ClientChunks}

RECURSIVE Concat(_)
Concat(s) == IF s = <<>> THEN <<>> ELSE Head(s) \o Concat(Tail(s))

\* Framed::new(socket, StartupCodec::new()) and the call of client_startup
SInit ==
    /\ chunks \in ChunkSeqs(MaxRequests)
    /\ io = Concat(chunks)
    /\ buffer = <<>>
    /\ is_readable = FALSE
    /\ eof = FALSE
    /\ codec = StartupCodecNew
    /\ at = "reader"
    /\ replies = <<>>
    /\ requests = <<>>
    /\ reader = "none"
    /\ startup = NotParsed
    /\ routed = FALSE
    /\ method = "none"
    /\ auth_salt = <<>>
    /\ accept = "none"
    /\ error = "none"

\* the connection of the other specifications: never started
SIdle ==
    /\ chunks = <<>>
    /\ io = <<>>
    /\ buffer = <<>>
    /\ is_readable = FALSE
    /\ eof = FALSE
    /\ codec = StartupCodecNew
    /\ at = "idle"
    /\ replies = <<>>
    /\ requests = <<>>
    /\ reader = "none"
    /\ startup = NotParsed
    /\ routed = FALSE
    /\ method = "none"
    /\ auth_salt = <<>>
    /\ accept = "none"
    /\ error = "none"

\* Framed::poll_next with is_readable unset: one read from the socket, which
\* gives some of the bytes the client sent, or 0 bytes once there are none
PollRead ==
    /\ AwaitsRequest
    /\ ~is_readable
    /\ ~eof
    /\ IF io = <<>>
       THEN eof' = TRUE /\ UNCHANGED <<io, buffer>>
       ELSE /\ \E n \in {1, Len(io)} :
                 /\ buffer' = buffer \o SubSeq(io, 1, n)
                 /\ io' = SubSeq(io, n + 1, Len(io))
            /\ UNCHANGED eof
    /\ is_readable' = TRUE
    /\ UNCHANGED <<ovars, cvars, rvars, hvars, evars, pvars, dvars>>
    /\ UNCHANGED <<codec, at, replies, requests, reader, startup, routed, method,
                   auth_salt, chunks, accept, error>>

\* Framed::poll_next: decode found no whole frame, the next step is a read
PollPending ==
    \E polled \in {Polled} :
    /\ AwaitsRequest
    /\ is_readable
    /\ polled.res.kind = "None"
    /\ is_readable' = FALSE
    /\ Took(polled)
    /\ UNCHANGED <<ovars, cvars, rvars, hvars, evars, pvars, dvars>>
    /\ UNCHANGED <<io, eof, at, replies, requests, reader, startup, routed, method,
                   auth_salt, chunks, accept, error>>

\* read_frontend_startup: the SSLRequest and GSSEncRequest arms
ReaderNegotiation ==
    \E polled \in {Polled} :
    /\ at = "reader"
    /\ is_readable
    /\ polled.res.kind = "Some"
    /\ polled.res.msg.type \in {"SSLRequest", "GSSEncRequest"}
    /\ Took(polled)
    /\ requests' = Append(requests, polled.res.msg)
    /\ \E written \in BOOLEAN :
          IF written
          THEN /\ replies' = Append(replies, ReaderReply(polled.res.msg))
               /\ UNCHANGED <<at, reader, accept, error>>
          ELSE /\ reader' = "Err"
               /\ error' = "io"
               /\ accept' = "None"
               /\ at' = "done"
               /\ UNCHANGED replies
    /\ UNCHANGED <<ovars, cvars, rvars, hvars, evars, pvars, dvars>>
    /\ UNCHANGED <<io, is_readable, eof, startup, routed, method, auth_salt, chunks>>

\* read_frontend_startup: the Startup arm, and StartupData::parse(raw) in
\* client_startup
ReaderStartup ==
    \E polled \in {Polled} :
    /\ at = "reader"
    /\ is_readable
    /\ polled.res.kind = "Some"
    /\ polled.res.msg.type = "Startup"
    /\ Took(polled)
    /\ requests' = Append(requests, polled.res.msg)
    /\ reader' = "Startup"
    /\ startup' = Parsed(StartupDataParse(polled.res.msg.data))
    /\ at' = "handle_startup"
    /\ UNCHANGED <<ovars, cvars, rvars, hvars, evars, pvars, dvars>>
    /\ UNCHANGED <<io, is_readable, eof, replies, routed, method, auth_salt, chunks,
                   accept, error>>

\* read_frontend_startup: the Cancel arm, and the Cancel arm of client_startup
ReaderCancel ==
    \E polled \in {Polled} :
    /\ at = "reader"
    /\ is_readable
    /\ polled.res.kind = "Some"
    /\ polled.res.msg.type = "Cancel"
    /\ Took(polled)
    /\ requests' = Append(requests, polled.res.msg)
    /\ reader' = "Cancel"
    /\ accept' = "None"
    /\ at' = "done"
    /\ UNCHANGED <<ovars, cvars, rvars, hvars, evars, pvars, dvars>>
    /\ UNCHANGED <<io, is_readable, eof, replies, startup, routed, method, auth_salt,
                   chunks, error>>

\* read_frontend_startup: try_next gives an error, `?` returns it, and
\* client_startup's `.ok()?` returns None; with a reply added
ReaderErrReplying ==
    \E polled \in {Polled} :
    /\ at = "reader"
    /\ is_readable
    /\ polled.res.kind = "Err"
    /\ Took(polled)
    /\ reader' = "Err"
    /\ error' = polled.res.err
    /\ accept' = "None"
    /\ at' = "done"
    /\ replies' = Append(replies, RespErrorResponse(AuthenticationFailedText))
    /\ UNCHANGED <<ovars, cvars, rvars, hvars, evars, pvars, dvars>>
    /\ UNCHANGED <<io, is_readable, eof, requests, startup, routed, method,
                   auth_salt, chunks>>

\* read_frontend_startup: try_next gives an error, `?` returns it, and
\* client_startup's `.ok()?` returns None
ReaderErr ==
    \E polled \in {Polled} :
    /\ at = "reader"
    /\ is_readable
    /\ polled.res.kind = "Err"
    /\ Took(polled)
    /\ reader' = "Err"
    /\ error' = polled.res.err
    /\ accept' = "None"
    /\ at' = "done"
    /\ UNCHANGED <<ovars, cvars, rvars, hvars, evars, pvars, dvars>>
    /\ UNCHANGED <<io, is_readable, eof, replies, requests, startup, routed, method,
                   auth_salt, chunks>>

\* read_frontend_startup: try_next gives None, the `else` returns
\* Err(Error::closed())
ReaderClosed ==
    \E polled \in {Polled} :
    /\ at = "reader"
    /\ is_readable
    /\ polled.res.kind = "End"
    /\ Took(polled)
    /\ is_readable' = FALSE
    /\ reader' = "Closed"
    /\ error' = "closed"
    /\ accept' = "None"
    /\ at' = "done"
    /\ UNCHANGED <<ovars, cvars, rvars, hvars, evars, pvars, dvars>>
    /\ UNCHANGED <<io, eof, replies, requests, startup, routed, method, auth_salt,
                   chunks>>

\* client_startup: the Err(_reject) arm of bouncer.handle_startup
HandleStartupReject ==
    /\ at = "handle_startup"
    /\ routed' = TRUE
    /\ \E written \in BOOLEAN :
          replies' = IF written
                     THEN Append(replies, RespErrorResponse(ConnectionRejectedText))
                     ELSE replies
    /\ error' = "rejected"
    /\ accept' = "None"
    /\ at' = "done"
    /\ UNCHANGED <<ovars, cvars, rvars, hvars, evars, pvars, dvars>>
    /\ UNCHANGED <<io, buffer, is_readable, eof, codec, requests, reader, startup,
                   method, auth_salt, chunks>>

\* client_startup: Ok(accept) with AuthMethod::Trust; authenticate returns
\* Ok(()) at once
HandleStartupTrust ==
    /\ at = "handle_startup"
    /\ routed' = TRUE
    /\ method' = "Trust"
    /\ accept' = "Some"
    /\ at' = "done"
    /\ UNCHANGED <<ovars, cvars, rvars, hvars, evars, pvars, dvars>>
    /\ UNCHANGED <<io, buffer, is_readable, eof, codec, replies, requests, reader,
                   startup, auth_salt, chunks, error>>

\* client_startup's Err(err) arm of authenticate: the ErrorResponse is sent
\* if the write works, and None is returned; before is what was written so far
AuthenticateErr(e, before) ==
    /\ error' = e
    /\ accept' = "None"
    /\ at' = "done"
    /\ \E written \in BOOLEAN :
          replies' = IF written
                     THEN Append(before, RespErrorResponse(AuthenticationFailedText))
                     ELSE before

\* client_startup: Ok(accept) with AuthMethod::Password; authenticate draws
\* the salt, sends the challenge and flushes
HandleStartupPassword ==
    /\ at = "handle_startup"
    /\ routed' = TRUE
    /\ method' = "Password"
    /\ \E s \in ChallengeSalts :
          /\ auth_salt' = s
          /\ \E sending, flushing \in BOOLEAN :
                IF sending /\ flushing
                THEN /\ replies' = Append(replies, RespAuthenticationMD5Password(s))
                     /\ at' = "auth_read"
                     /\ UNCHANGED <<accept, error>>
                ELSE AuthenticateErr("io",
                        IF sending
                        THEN Append(replies, RespAuthenticationMD5Password(s))
                        ELSE replies)
    /\ UNCHANGED <<ovars, cvars, rvars, hvars, evars, pvars, dvars>>
    /\ UNCHANGED <<io, buffer, is_readable, eof, codec, requests, reader, startup,
                   chunks>>

\* authenticate: try_next gives Some(Password(received_hash))
AuthenticatePassword ==
    \E polled \in {Polled} :
    /\ at = "auth_read"
    /\ is_readable
    /\ polled.res.kind = "Some"
    /\ polled.res.msg.type = "Password"
    /\ Took(polled)
    /\ IF Md5PasswordEqual(ExpectedPassword, polled.res.msg.data, startup, auth_salt)
       THEN /\ accept' = "Some"
            /\ at' = "done"
            /\ UNCHANGED <<replies, error>>
       ELSE AuthenticateErr("authentication", replies)
    /\ UNCHANGED <<ovars, cvars, rvars, hvars, evars, pvars, dvars>>
    /\ UNCHANGED <<io, is_readable, eof, requests, reader, startup, routed, method,
                   auth_salt, chunks>>

\* authenticate: try_next gives None or a request that is no Password, the
\* `_` arm
AuthenticateUnexpected ==
    \E polled \in {Polled} :
    /\ at = "auth_read"
    /\ is_readable
    /\ \/ polled.res.kind = "End"
       \/ polled.res.kind = "Some" /\ polled.res.msg.type /= "Password"
    /\ Took(polled)
    /\ AuthenticateErr("unexpected_message", replies)
    /\ UNCHANGED <<ovars, cvars, rvars, hvars, evars, pvars, dvars>>
    /\ UNCHANGED <<io, is_readable, eof, requests, reader, startup, routed, method,
                   auth_salt, chunks>>

\* authenticate: try_next gives an error, map_err(Error::io)? keeps its kind
AuthenticateIoErr ==
    \E polled \in {Polled} :
    /\ at = "auth_read"
    /\ is_readable
    /\ polled.res.kind = "Err"
    /\ Took(polled)
    /\ AuthenticateErr(polled.res.err, replies)
    /\ UNCHANGED <<ovars, cvars, rvars, hvars, evars, pvars, dvars>>
    /\ UNCHANGED <<io, is_readable, eof, requests, reader, startup, routed, method,
                   auth_salt, chunks>>

\* the decode call panics (a slice past the end of the frame): the task of
\* the connection unwinds out of client_startup
DecodePanics ==
    \E polled \in {Polled} :
    /\ AwaitsRequest
    /\ is_readable
    /\ polled.res.kind = "Panic"
    /\ accept' = "Panic"
    /\ at' = "done"
    /\ UNCHANGED <<ovars, cvars, rvars, hvars, evars, pvars, dvars>>
    /\ UNCHANGED <<io, buffer, is_readable, eof, codec, replies, requests, reader,
                   startup, routed, method, auth_salt, chunks, error>>

SNext ==
    \/ PollRead
    \/ PollPending
    \/ ReaderNegotiation
    \/ ReaderStartup
    \/ ReaderCancel
    \/ ReaderErr
    \/ ReaderClosed
    \/ HandleStartupReject
    \/ HandleStartupTrust
    \/ HandleStartupPassword
    \/ AuthenticatePassword
    \/ AuthenticateUnexpected
    \/ AuthenticateIoErr
    \/ DecodePanics

(***************************************************************************)
(* proxy/mod.rs proxy_data and write_pending on the bytes of one session.  *)
(* The io of a FramedParts is kept as the bytes written to it since the    *)
(* relay was entered.                                                      *)
(***************************************************************************)
\* bytes a framed stream holds in one buffer at entry, at most
MaxBuffered == 2

\* bytes a peer sends while the relay runs, at most
MaxLive == 2

\* n bytes told apart from the bytes of every other origin by their tens
BytesFrom(origin, n) == [i \in 1..n |-> origin + i]

FramedParts(rbuf, wbuf) ==
    [io |-> <<>>, read_buf |-> rbuf, write_buf |-> wbuf]

\* the four write_all futures of write_pending
FirstJoin == {"a", "b"}
SecondJoin == {"c", "d"}

\* a relay that hands each side's read_buf back to that side
WriteAllBufEchoing(fut) ==
    CASE fut = "a" -> server.write_buf
      [] fut = "b" -> client.write_buf
      [] fut = "c" -> client.read_buf
      [] fut = "d" -> server.read_buf

\* the buffer each future writes
WriteAllBuf(fut) ==
    CASE fut = "a" -> server.write_buf
      [] fut = "b" -> client.write_buf
      [] fut = "c" -> server.read_buf
      [] fut = "d" -> client.read_buf

\* the io each future writes to
WriteAllIo(fut) == IF fut \in {"a", "d"} THEN "server" ELSE "client"

WriteAllDone(fut) == progress[fut] = Len(WriteAllBuf(fut))

\* bytes are appended to the io of one side
WriteTo(side, bytes) ==
    IF side = "client"
    THEN client' = [client EXCEPT !.io = @ \o bytes] /\ UNCHANGED server
    ELSE server' = [server EXCEPT !.io = @ \o bytes] /\ UNCHANGED client

\* one poll of a write_all future: the io takes some of the bytes left
PollWriteAll(fut) ==
    /\ ~WriteAllDone(fut)
    /\ \E n \in 1..(Len(WriteAllBuf(fut)) - progress[fut]) :
          /\ WriteTo(WriteAllIo(fut),
                     SubSeq(WriteAllBuf(fut), progress[fut] + 1, progress[fut] + n))
          /\ progress' = [progress EXCEPT ![fut] = @ + n]

ProxyDataErr ==
    /\ relay_result' = "err"
    /\ relay_at' = "done"

\* proxy_data entered with the parts of the two framed streams
RInit ==
    /\ \E cr, cw, sr, sw \in 0..MaxBuffered :
          /\ client = FramedParts(BytesFrom(10, cr), BytesFrom(20, cw))
          /\ server = FramedParts(BytesFrom(30, sr), BytesFrom(40, sw))
    /\ \E cl, sl \in 0..MaxLive :
          incoming = [client |-> BytesFrom(50, cl), server |-> BytesFrom(60, sl)]
    /\ relay_at = "write_bufs"
    /\ progress = [fut \in FirstJoin \cup SecondJoin |-> 0]
    /\ relay_result = "none"

\* the session of the other specifications: proxy_data is not entered
RIdle ==
    /\ client = FramedParts(<<>>, <<>>)
    /\ server = FramedParts(<<>>, <<>>)
    /\ incoming = [client |-> <<>>, server |-> <<>>]
    /\ relay_at = "idle"
    /\ progress = [fut \in FirstJoin \cup SecondJoin |-> 0]
    /\ relay_result = "none"

\* write_pending: try_join!(a, b) polls one of its futures
WriteBufsPoll ==
    /\ relay_at = "write_bufs"
    /\ \E fut \in FirstJoin : PollWriteAll(fut)
    /\ UNCHANGED <<ovars, cvars, evars, pvars, dvars, svars, hvars>>
    /\ UNCHANGED <<incoming, relay_at, relay_result>>

\* write_pending: try_join!(a, b) is Ok once both futures are
WriteBufsJoined ==
    /\ relay_at = "write_bufs"
    /\ \A fut \in FirstJoin : WriteAllDone(fut)
    /\ relay_at' = "read_bufs"
    /\ UNCHANGED <<ovars, cvars, evars, pvars, dvars, svars, hvars>>
    /\ UNCHANGED <<client, server, incoming, progress, relay_result>>

\* write_pending: a write of a or b fails, try_join!(a, b) drops the other
\* future and `?` returns the error
WriteBufsErr ==
    /\ relay_at = "write_bufs"
    /\ \E fut \in FirstJoin : ~WriteAllDone(fut)
    /\ ProxyDataErr
    /\ UNCHANGED <<ovars, cvars, evars, pvars, dvars, svars, hvars>>
    /\ UNCHANGED <<client, server, incoming, progress>>

\* write_pending: try_join!(c, d) polls one of its futures
ReadBufsPoll ==
    /\ relay_at = "read_bufs"
    /\ \E fut \in SecondJoin : PollWriteAll(fut)
    /\ UNCHANGED <<ovars, cvars, evars, pvars, dvars, svars, hvars>>
    /\ UNCHANGED <<incoming, relay_at, relay_result>>

\* write_pending returns Ok(()) and proxy_data goes on to copy_bidirectional
ReadBufsJoined ==
    /\ relay_at = "read_bufs"
    /\ \A fut \in SecondJoin : WriteAllDone(fut)
    /\ relay_at' = "copy"
    /\ UNCHANGED <<ovars, cvars, evars, pvars, dvars, svars, hvars>>
    /\ UNCHANGED <<client, server, incoming, progress, relay_result>>

\* write_pending: a write of c or d fails
ReadBufsErr ==
    /\ relay_at = "read_bufs"
    /\ \E fut \in SecondJoin : ~WriteAllDone(fut)
    /\ ProxyDataErr
    /\ UNCHANGED <<ovars, cvars, evars, pvars, dvars, svars, hvars>>
    /\ UNCHANGED <<client, server, incoming, progress>>

\* copy_bidirectional moves bytes one peer sent to the io of the other
CopyMoves ==
    /\ relay_at = "copy"
    /\ \E side \in {"client", "server"} :
          /\ incoming[side] /= <<>>
          /\ \E n \in 1..Len(incoming[side]) :
                /\ WriteTo(IF side = "client" THEN "server" ELSE "client",
                           SubSeq(incoming[side], 1, n))
                /\ incoming' = [incoming EXCEPT
                                  ![side] = SubSeq(@, n + 1, Len(@))]
    /\ UNCHANGED <<ovars, cvars, evars, pvars, dvars, svars, hvars>>
    /\ UNCHANGED <<relay_at, progress, relay_result>>

\* copy_bidirectional returns Ok at EOF of both directions
CopyReturnsOk ==
    /\ relay_at = "copy"
    /\ incoming = [client |-> <<>>, server |-> <<>>]
    /\ relay_result' = "ok"
    /\ relay_at' = "done"
    /\ UNCHANGED <<ovars, cvars, evars, pvars, dvars, svars, hvars>>
    /\ UNCHANGED <<client, server, incoming, progress>>

\* copy_bidirectional returns an I/O error
CopyReturnsErr ==
    /\ relay_at = "copy"
    /\ ProxyDataErr
    /\ UNCHANGED <<ovars, cvars, evars, pvars, dvars, svars, hvars>>
    /\ UNCHANGED <<client, server, incoming, progress>>

RNext ==
    \/ WriteBufsPoll
    \/ WriteBufsJoined
    \/ WriteBufsErr
    \/ ReadBufsPoll
    \/ ReadBufsJoined
    \/ ReadBufsErr
    \/ CopyMoves
    \/ CopyReturnsOk
    \/ CopyReturnsErr

(***************************************************************************)
(* connect_proxy.rs connect_proxy.  A Config is kept by the lengths of its *)
(* host, hostaddr and port vectors; vec.get(i) is Some exactly when i is   *)
(* below the length.                                                       *)
(***************************************************************************)
\* hosts a Config lists, at most
MaxHosts == 3

LoadBalanceHosts == {"Disable", "Random"}

Configs ==
    [host : 0..MaxHosts, hostaddr : 0..MaxHosts, port : 0..(MaxHosts + 1),
     load_balance_hosts : LoadBalanceHosts]

\* cmp::max(config.host.len(), config.hostaddr.len())
NumHosts(cfg) == IF cfg.host >= cfg.hostaddr THEN cfg.host ELSE cfg.hostaddr

\* the early returns of connect_proxy, in their order; "none" when it goes on
ConfigError(cfg) ==
    IF cfg.host = 0 /\ cfg.hostaddr = 0
    THEN "both host and hostaddr are missing"
    ELSE IF cfg.host /= 0 /\ cfg.hostaddr /= 0 /\ cfg.host /= cfg.hostaddr
    THEN "number of hosts is different from number of hostaddrs"
    ELSE IF cfg.port > 1 /\ cfg.port /= NumHosts(cfg)
    THEN "invalid number of ports"
    ELSE "none"

\* every order of the indices 0..n-1
Shuffles(n) ==
    {s \in [1..n -> 0..(n - 1)] : \A i, j \in 1..n : i /= j => s[i] /= s[j]}

\* (0..num_hosts).collect(), shuffled under LoadBalanceHosts::Random
Indices(cfg) ==
    IF cfg.load_balance_hosts = "Random"
    THEN Shuffles(NumHosts(cfg))
    ELSE {[i \in 1..NumHosts(cfg) |-> i - 1]}

\* the addr of attempt i: hostaddr, else host, else the unwrap of a None
AddrOf(cfg, i) ==
    IF i < cfg.hostaddr THEN "hostaddr"
    ELSE IF i < cfg.host THEN "host"
    ELSE "unwrap_none"

\* the errors connect_host returns for host i
ConnectHostErrors(i) ==
    {[host |-> i, kind |-> "Err", error |-> e] :
        e \in {"lookup_host", "connect_once", "could not resolve any addresses"}}

\* what the attempt at host i comes to
AttemptOutcomes(cfg, i) ==
    IF AddrOf(cfg, i) = "unwrap_none"
    THEN {[host |-> i, kind |-> "Panic", error |-> "None"]}
    ELSE {[host |-> i, kind |-> "Ok", error |-> "None"]} \cup ConnectHostErrors(i)

\* `let mut error = None`
NoError == [host |-> -1, kind |-> "None", error |-> "None"]

\* a loop that keeps the error of the first failed attempt
RecordErrorKeepingFirst(last, e) == IF last = NoError THEN e ELSE last

\* Err(e) => error = Some(e)
RecordError(last, e) == e

HInit ==
    /\ config \in Configs
    /\ indices = <<>>
    /\ tried = <<>>
    /\ connect_error = NoError
    /\ connect_at = "validate"
    /\ connect_result = [kind |-> "none"]

\* the session of the other specifications: connect_proxy is not called
HIdle ==
    /\ config = [host |-> 0, hostaddr |-> 0, port |-> 0,
                 load_balance_hosts |-> "Disable"]
    /\ indices = <<>>
    /\ tried = <<>>
    /\ connect_error = NoError
    /\ connect_at = "idle"
    /\ connect_result = [kind |-> "none"]

\* one of the three early returns with Error::config
ConnectProxyConfigErr ==
    /\ connect_at = "validate"
    /\ ConfigError(config) /= "none"
    /\ connect_result' = [kind |-> "Err",
                          error |-> [host |-> -1, kind |-> "Config",
                                     error |-> ConfigError(config)]]
    /\ connect_at' = "done"
    /\ UNCHANGED <<ovars, cvars, evars, pvars, dvars, svars, rvars>>
    /\ UNCHANGED <<config, indices, tried, connect_error>>

\* the config passes, the indices are collected and the loop is entered
ConnectProxyIndices ==
    /\ connect_at = "validate"
    /\ ConfigError(config) = "none"
    /\ indices' \in Indices(config)
    /\ connect_at' = "loop"
    /\ UNCHANGED <<ovars, cvars, evars, pvars, dvars, svars, rvars>>
    /\ UNCHANGED <<config, tried, connect_error, connect_result>>

\* one turn of `for i in indices`
ConnectProxyAttempt ==
    /\ connect_at = "loop"
    /\ indices /= <<>>
    /\ \E outcome \in AttemptOutcomes(config, Head(indices)) :
          /\ tried' = Append(tried, outcome)
          /\ indices' = Tail(indices)
          /\ IF outcome.kind = "Panic"
             THEN /\ connect_result' = [kind |-> "Panic"]
                  /\ connect_at' = "done"
                  /\ UNCHANGED connect_error
             ELSE IF outcome.kind = "Ok"
             THEN /\ connect_result' = [kind |-> "Ok", host |-> Head(indices)]
                  /\ connect_at' = "done"
                  /\ UNCHANGED connect_error
             ELSE /\ connect_error' = RecordError(connect_error, outcome)
                  /\ UNCHANGED <<connect_at, connect_result>>
    /\ UNCHANGED <<ovars, cvars, evars, pvars, dvars, svars, rvars>>
    /\ UNCHANGED config

\* the loop is over: Err(error.unwrap())
ConnectProxyExhausted ==
    /\ connect_at = "loop"
    /\ indices = <<>>
    /\ connect_result' = IF connect_error = NoError
                         THEN [kind |-> "Panic"]
                         ELSE [kind |-> "Err", error |-> connect_error]
    /\ connect_at' = "done"
    /\ UNCHANGED <<ovars, cvars, evars, pvars, dvars, svars, rvars>>
    /\ UNCHANGED <<config, indices, tried, connect_error>>

HNext ==
    \/ ConnectProxyConfigErr
    \/ ConnectProxyIndices
    \/ ConnectProxyAttempt
    \/ ConnectProxyExhausted

(***************************************************************************)
(* Specifications                                                          *)
(***************************************************************************)
XIdle == EIdle /\ PIdle /\ DIdle /\ SIdle /\ RIdle /\ HIdle

Init == OInit /\ CIdle /\ XIdle
Next == ONext
Spec == Init /\ [][Next]_vars

InitCodec == OInit /\ CInit /\ XIdle
NextCodec == CNext
SpecCodec == InitCodec /\ [][NextCodec]_vars

InitEncode == OInit /\ CIdle /\ EIdle /\ PIdle /\ DIdle /\ SIdle /\ RIdle /\ HIdle
NextEncode == EncodeItem
SpecEncode == InitEncode /\ [][NextEncode]_vars

InitReplay == OInit /\ CIdle /\ EIdle /\ PInit /\ DIdle /\ SIdle /\ RIdle /\ HIdle
NextReplay == PNext
SpecReplay == InitReplay /\ [][NextReplay]_vars

InitStartupData == OInit /\ CIdle /\ EIdle /\ PIdle /\ DInit /\ SIdle /\ RIdle /\ HIdle
NextStartupData == ParseStartupData
SpecStartupData == InitStartupData /\ [][NextStartupData]_vars

InitStartup == OInit /\ CIdle /\ EIdle /\ PIdle /\ DIdle /\ SInit /\ RIdle /\ HIdle
NextStartup == SNext
SpecStartup == InitStartup /\ [][NextStartup]_vars

InitRelay == OInit /\ CIdle /\ EIdle /\ PIdle /\ DIdle /\ SIdle /\ RInit /\ HIdle
NextRelay == RNext
SpecRelay == InitRelay /\ [][NextRelay]_vars

InitConnect == OInit /\ CIdle /\ EIdle /\ PIdle /\ DIdle /\ SIdle /\ RIdle /\ HInit
NextConnect == HNext
SpecConnect == InitConnect /\ [][NextConnect]_vars

(***************************************************************************)
(* Properties of the orchestrator (checked under Spec)                     *)
(***************************************************************************)
Ended(c) == pc[c] \in {"done", "aborted"}
Registered(c) == "registered" \in ev[c]
InRelay(c) == pc[c] \in {"write_pending", "write_pending_read", "copy_bidirectional"}
HoldsEntry(c) == \E k \in CancelKey : cancel_handles[k] = CancelHandle(c)

\* connection c takes the step of handle_cancel that looks its key up
LookupStep(c) == pc[c] = "cancel_wait" /\ pc'[c] \notin {"cancel_wait", "aborted"}

\* C1: after a proxied session has ended by any exit path (relay completion,
\* handshake error, relay error, or the task being dropped at a suspension
\* point after registration), the registry no longer holds the entry that
\* session registered.
C1_EndedSessionHasNoEntry ==
    \A c \in Conn : Ended(c) => ~HoldsEntry(c)

\* C2: within one session the registration has completed before the byte
\* relay starts, deregistration is performed only after the relay returned,
\* and it is performed whether the relay returned Ok or Err.
C2_RegisterBeforeRelayDeregisterAfter ==
    \A c \in Conn :
        /\ (InRelay(c) \/ "relay" \in ev[c] \/ proxy_result[c] /= "none") => Registered(c)
        /\ InRelay(c) => (proxy_result[c] = "none" /\ "deregistered" \notin ev[c])
        /\ "deregistered" \in ev[c] => proxy_result[c] \in {"ok", "err"}
        /\ (pc[c] = "done" /\ proxy_result[c] \in {"ok", "err"}) => "deregistered" \in ev[c]

\* C2 witness: a session whose relay failed has been deregistered
C2_Witness ==
    \E c \in Conn : pc[c] = "done" /\ proxy_result[c] = "err" /\ "deregistered" \in ev[c]

\* C3: while the cancel RPC of a Cancel request is in flight, its handler holds
\* no guard of the registry lock.
C3_NoGuardDuringCancelQuery ==
    \A c \in Conn : pc[c] = "cancel_query" => c \notin lock_readers

\* C4: once a Cancel frame has been decoded on a connection nothing is written
\* to that connection (registered key or not, whatever cancel_query returns),
\* and the connection ends without routing, authentication or backend connect.
C4_NoReplyToCancel ==
    /\ [](\A c \in Conn : "cancel" \in ev[c] =>
            /\ ev[c] \subseteq {"cancel", "cancel_returned"}
            /\ pc[c] \in {"cancel_wait", "cancel_query", "done", "aborted"}
            /\ write_buf[c] = <<>>
            /\ auth_method[c] = "none")
    /\ [][\A c \in Conn : "cancel" \in ev'[c] => out'[c] = out[c]]_vars

\* C4 witness: a Cancel connection that had been answered 'N' before, fired a
\* handle and is closed
C4_Witness ==
    \E c \in Conn : /\ "cancel_returned" \in ev[c] /\ pc[c] = "done"
                    /\ fired[c] /= <<>> /\ out[c] = <<SSLResponseFalse>>

\* C5: a Cancel frame whose key is not in the registry when it is looked up is
\* dropped: no cancel RPC is fired, the registry is unchanged, nothing is sent.
C5_UnknownKeyDropped ==
    [][\A c \in Conn :
         (LookupStep(c) /\ cancel_handles[key[c]] = NoHandle) =>
            /\ pc'[c] = "done"
            /\ fired' = fired /\ fired[c] = <<>>
            /\ cancel_handles' = cancel_handles
            /\ out' = out]_vars

\* C5 witness: a Cancel connection closed without firing while a session with
\* another key is registered
C5_Witness ==
    \E c, s \in Conn :
        /\ "cancel" \in ev[c] /\ pc[c] = "done" /\ fired[c] = <<>>
        /\ HoldsEntry(s) /\ cancel_handles[key[c]] = NoHandle
        /\ key[s].process_id = key[c].process_id

\* C6: a Cancel frame whose key a session has registered fires exactly one
\* cancel RPC, on the handle stored under the key equal in both fields.
C6_RegisteredKeyFiresItsHandle ==
    /\ [](\A c \in Conn :
            /\ Len(fired[c]) <= 1
            /\ \A i \in 1..Len(fired[c]) :
                  /\ fired[c][i] \in Conn /\ Registered(fired[c][i])
                  /\ key[fired[c][i]].process_id = key[c].process_id
                  /\ key[fired[c][i]].secret_key = key[c].secret_key)
    /\ [][\A c \in Conn :
            (LookupStep(c) /\ cancel_handles[key[c]] /= NoHandle) =>
               /\ fired'[c] = <<cancel_handles[key[c]]>>
               /\ pc'[c] = "cancel_query"]_vars

\* C6 witness: a Cancel fired the handle of a relaying session
C6_Witness ==
    \E c, s \in Conn : fired[c] = <<CancelHandle(s)>> /\ InRelay(s) /\ key[s] = key[c]

(***************************************************************************)
(* Properties of the startup codec (checked under SpecCodec).  They speak  *)
(* of the last decode call: prev_buf and prev_seen are its input, result   *)
(* and rest_buf its outcome.                                               *)
(***************************************************************************)
Decoded == result.kind /= "NotCalled"
Consumed(n) == rest_buf = SubSeq(prev_buf, n + 1, Len(prev_buf))
ConsumedNothing == rest_buf = prev_buf

\* the length word of an un-tagged frame lies outside [4, 10000]
UntaggedLenOutOfRange ==
    LET w == SubSeq(prev_buf, 1, 4) IN
    \/ w[1] /= 0 \/ w[2] /= 0
    \/ w[3] * 256 + w[4] < 4
    \/ w[3] * 256 + w[4] > 10000

UntaggedLen == prev_buf[3] * 256 + prev_buf[4]

\* C7: un-tagged decoding rejects a length prefix outside [4,10000] with
\* InvalidInput and consumes nothing beyond the prefix; with fewer than len
\* bytes buffered it returns need-more and consumes nothing; with a valid
\* length and the whole frame buffered it consumes exactly len bytes and
\* leaves the bytes after the frame in the buffer.
C7_UntaggedFraming ==
    (Decoded /\ ~prev_seen) =>
        /\ Len(prev_buf) < 4 => (result = OkNone /\ ConsumedNothing)
        /\ (Len(prev_buf) >= 4 /\ UntaggedLenOutOfRange) =>
              (result = Err("InvalidInput") /\ ConsumedNothing)
        /\ (Len(prev_buf) >= 4 /\ ~UntaggedLenOutOfRange /\ Len(prev_buf) < UntaggedLen) =>
              (result = OkNone /\ ConsumedNothing)
        /\ (Len(prev_buf) >= 4 /\ ~UntaggedLenOutOfRange /\ Len(prev_buf) >= UntaggedLen) =>
              (result.kind \in {"Some", "Err"} /\ Consumed(UntaggedLen))

\* C7 witness: a frame was decoded off the front of a buffer that held more
\* than the frame, and the rest is still buffered
C7_Witness ==
    /\ Decoded /\ ~prev_seen /\ result.kind = "Some"
    /\ Len(prev_buf) > UntaggedLen /\ rest_buf /= <<>> /\ Consumed(UntaggedLen)

IsFixedSizeRequest ==
    /\ Len(prev_buf) >= 8
    /\ prev_buf[5] = 4 /\ prev_buf[6] = 210 /\ prev_buf[7] = 22
    /\ prev_buf[8] \in {46, 47, 48}

FixedSize == IF prev_buf[8] = 46 THEN 16 ELSE 8

\* C9: an un-tagged Cancel, SSLRequest or GSSEncRequest frame whose len is
\* larger than its fixed size (16, 8, 8) yields no request, and is rejected
\* with InvalidInput as soon as it is decoded.
C9_TrailingBytesRejected ==
    (Decoded /\ ~prev_seen /\ IsFixedSizeRequest
       /\ (UntaggedLenOutOfRange \/ UntaggedLen > FixedSize)) =>
        /\ result.kind /= "Some"
        /\ (UntaggedLenOutOfRange \/ Len(prev_buf) >= UntaggedLen) =>
              result = Err("InvalidInput")

\* C9 witness: a Cancel frame of len 17, wholly buffered, was rejected
C9_Witness ==
    /\ Decoded /\ ~prev_seen /\ IsFixedSizeRequest /\ prev_buf[8] = 46
    /\ ~UntaggedLenOutOfRange /\ UntaggedLen = 17 /\ Len(prev_buf) >= 17
    /\ result = Err("InvalidInput")

\* a tagged Password frame as the protocol defines it sits at the front of
\* prev_buf: 'p', a length word len in [5,10000], len-4 body bytes of which
\* only the last is 0
TaggedLen == prev_buf[4] * 256 + prev_buf[5]
PasswordFrameHeader ==
    /\ Len(prev_buf) >= 5 /\ prev_buf[1] = 112
    /\ prev_buf[2] = 0 /\ prev_buf[3] = 0
    /\ TaggedLen >= 5 /\ TaggedLen <= 10000
PasswordFrameBuffered ==
    /\ PasswordFrameHeader /\ Len(prev_buf) >= TaggedLen + 1
    /\ prev_buf[TaggedLen + 1] = 0
    /\ \A i \in 6..TaggedLen : prev_buf[i] /= 0

\* C10: in tagged mode a frame 'p' <u32 len> <len-4 body bytes ending in 0> is
\* decoded only once len+1 bytes are buffered, decoding consumes exactly those
\* len+1 bytes, and the result is Password(the body before the terminator).
C10_PasswordFrame ==
    (Decoded /\ prev_seen) =>
        /\ (PasswordFrameHeader /\ Len(prev_buf) < TaggedLen + 1) =>
              (result = OkNone /\ ConsumedNothing)
        /\ PasswordFrameBuffered =>
              /\ result = OkSome(Password(SubSeq(prev_buf, 6, TaggedLen)))
              /\ Consumed(TaggedLen + 1)

(***************************************************************************)
(* Properties of StartupResponse::encode (checked under SpecEncode).  They *)
(* speak of the last encode call: item and dst_before are its input, dst   *)
(* its outcome.                                                            *)
(***************************************************************************)
\* what the last encode call appended to dst
Appended == SubSeq(dst, Len(dst_before) + 1, Len(dst))

\* the length word of a frame counts every byte of the frame after its tag
LenWordCountsAfterTag(s) ==
    /\ Len(s) >= 5
    /\ SubSeq(s, 2, 5) = <<0, 0, 0, Len(s) - 1>>

\* C11: for every StartupResponse variant encode leaves what dst held in
\* place and appends exactly the variant's wire form: 'R' u32(8) u32(0);
\* 'R' u32(12) salt u32(0); one byte 'S'/'G' if true else 'N'; 'E' u32(len)
\* 'S' "FATAL" 0 'M' text 0 0; 'S' u32(len) k 0 v 0; 'Z' u32(5) 'I'; len being
\* the number of bytes that follow the tag byte.
C11_EncodeWireForms ==
    item /= NoItem =>
        /\ Len(dst) >= Len(dst_before)
        /\ SubSeq(dst, 1, Len(dst_before)) = dst_before
        /\ item.type = "AuthenticationOk" =>
              Appended = <<82, 0, 0, 0, 8, 0, 0, 0, 0>>
        /\ item.type = "AuthenticationMD5Password" =>
              Appended = <<82, 0, 0, 0, 12>> \o item.salt \o <<0, 0, 0, 0>>
        /\ item.type = "SSLResponse" =>
              Appended = IF item.ok THEN <<83>> ELSE <<78>>
        /\ item.type = "GSSEncResponse" =>
              Appended = IF item.ok THEN <<71>> ELSE <<78>>
        /\ item.type = "ErrorResponse" =>
              /\ LenWordCountsAfterTag(Appended)
              /\ Appended[1] = 69
              /\ SubSeq(Appended, 6, Len(Appended)) =
                    <<83, 70, 65, 84, 65, 76, 0, 77>> \o item.err \o <<0, 0>>
        /\ item.type = "ParameterStatus" =>
              /\ LenWordCountsAfterTag(Appended)
              /\ Appended[1] = 83
              /\ SubSeq(Appended, 6, Len(Appended)) =
                    item.key \o <<0>> \o item.value \o <<0>>
        /\ item.type = "ReadyForQuery" =>
              Appended = <<90, 0, 0, 0, 5, 73>>

\* C11 witness: an ErrorResponse with a two-byte text was encoded behind a
\* response already pending in dst
C11_Witness ==
    /\ item = RespErrorResponse(<<97, 98>>)
    /\ dst_before = <<78>>
    /\ dst = <<78, 69, 0, 0, 0, 16, 83, 70, 65, 84, 65, 76, 0, 77, 97, 98, 0, 0>>

(***************************************************************************)
(* Properties of the handshake replay (checked under SpecReplay)           *)
(***************************************************************************)
\* the frames queued for the client so far, in order
Frames == client_io \o sink
ParameterStatusFrames == SelectSeq(Frames, LAMBDA f : f.type = "ParameterStatus")
ReplayFed == replay_pc \in {"flush", "replayed"}

\* C12: whatever parameters the backend reported, the ParameterStatus frames
\* of the replay are in strictly ascending key order, each carries a
\* parameter of the backend with its value, no key comes twice, and once the
\* loop is through none is missing.
C12_ParameterReplaySorted ==
    LET ps == ParameterStatusFrames IN
    /\ \A i, j \in 1..Len(ps) : i < j => StrLess(ps[i].key, ps[j].key)
    /\ \A i, j \in 1..Len(ps) : i /= j => ps[i].key /= ps[j].key
    /\ \A i \in 1..Len(ps) :
          /\ ps[i].key \in DOMAIN backend_parameters
          /\ ps[i].value = backend_parameters[ps[i].key]
    /\ ReplayFed =>
          /\ Len(ps) = Cardinality(DOMAIN backend_parameters)
          /\ \A k \in DOMAIN backend_parameters : \E i \in 1..Len(ps) : ps[i].key = k

\* C12 witness: three parameters were replayed to the client, "B" first
C12_Witness ==
    /\ replay_pc = "replayed"
    /\ DOMAIN backend_parameters = ParamKeys
    /\ client_io = <<RespAuthenticationOk,
                RespParameterStatus(<<66>>, backend_parameters[<<66>>]),
                RespParameterStatus(<<97>>, backend_parameters[<<97>>]),
                RespParameterStatus(<<97, 98>>, backend_parameters[<<97, 98>>]),
                RespReadyForQuery>>

\* C13: a successful handshake has put on the client's socket one
\* AuthenticationOk, then only ParameterStatus frames, then one ReadyForQuery
\* and nothing else; flush is called only with ReadyForQuery queued behind
\* everything else; and AuthenticationOk is queued only after connect_proxy
\* returned Ok.
C13_ReplaySequence ==
    /\ replay_pc = "replayed" =>
          /\ sink = <<>>
          /\ Len(client_io) >= 2
          /\ client_io[1] = RespAuthenticationOk
          /\ client_io[Len(client_io)] = RespReadyForQuery
          /\ \A i \in 2..(Len(client_io) - 1) : client_io[i].type = "ParameterStatus"
    /\ replay_pc = "flush" =>
          /\ Frames[Len(Frames)] = RespReadyForQuery
          /\ Frames[1] = RespAuthenticationOk
    /\ \A i \in 1..Len(Frames) :
          /\ Frames[i].type = "AuthenticationOk" => (i = 1 /\ backend_info = "ok")
          /\ Frames[i].type = "ReadyForQuery" => (i = Len(Frames) /\ parameters = <<>>)

\* C13 witness: a handshake with two parameters went through
C13_Witness ==
    /\ replay_pc = "replayed" /\ backend_info = "ok"
    /\ Len(client_io) = 4
    /\ client_io[2].type = "ParameterStatus" /\ client_io[3].type = "ParameterStatus"

(***************************************************************************)
(* Properties of StartupData::parse (checked under SpecStartupData)        *)
(***************************************************************************)
\* the pairs of the payload whose key is UTF-8, in the payload's order
PairsWithUtf8Key == SelectSeq(pairs, LAMBDA p : IsUtf8(p[1]))

\* C20: parsing a payload of pairs ended by an empty key gives the map of
\* every pair whose key is valid UTF-8, values as raw bytes, the later value
\* kept for a key given twice; a pair whose key is not UTF-8 is left out, and
\* only that pair: the pairs before and behind it are in the map.
C20_StartupDataKeepsUtf8Pairs ==
    (startup_data.parsed /\ raw = PairBytes(pairs) \o <<0>>) =>
        startup_data.parameters = HashMapFromIter(PairsWithUtf8Key)

(***************************************************************************)
(* Properties of client_startup on the bytes of one connection (checked    *)
(* under SpecStartup)                                                      *)
(***************************************************************************)
NegotiationTypes == {"SSLRequest", "GSSEncRequest"}

\* the negotiation requests the reader has read
NegotiationCount ==
    Cardinality({i \in 1..Len(requests) : requests[i].type \in NegotiationTypes})

NegotiationChunks ==
    {UntaggedChunk(8, SSL_REQUEST_CODE, <<>>), UntaggedChunk(8, GSS_ENC_REQUEST_CODE, <<>>)}

\* the write of an 'N' failed and the reader returned that error
ReaderWriteFailed == reader = "Err" /\ error = "io"

\* C14: the startup reader answers each SSLRequest and each GSSEncRequest
\* with one 'N' byte, in arrival order, and reads on; it returns only on the
\* first Startup or Cancel, and fails with Closed when the stream ends before
\* one arrived.
C14_ReaderAnswersNegotiation ==
    /\ \A i \in 1..Len(requests) :
          \* whatever was read before the last request was a negotiation
          /\ i < Len(requests) => requests[i].type \in NegotiationTypes
          \* and the i-th of them got the i-th reply, an 'N'
          /\ (requests[i].type \in NegotiationTypes /\ i <= Len(replies)) =>
                /\ EncodedBytes(replies[i]) = <<78>>
                /\ replies[i].type = (IF requests[i].type = "SSLRequest"
                                      THEN "SSLResponse" ELSE "GSSEncResponse")
    \* one reply each, unless the write failed, which ends the reader
    /\ Len(replies) >= NegotiationCount - (IF ReaderWriteFailed THEN 1 ELSE 0)
    /\ (at = "reader" \/ reader \in {"Cancel", "Closed", "Err"}) =>
          Len(replies) = NegotiationCount - (IF ReaderWriteFailed THEN 1 ELSE 0)
    \* it is still reading after negotiation requests only
    /\ (at = "reader" /\ requests /= <<>>) =>
          requests[Len(requests)].type \in NegotiationTypes
    \* it returns a Startup or a Cancel exactly when that is what it read last
    /\ reader = "Startup" <=>
          (requests /= <<>> /\ requests[Len(requests)].type = "Startup")
    /\ reader = "Cancel" <=>
          (requests /= <<>> /\ requests[Len(requests)].type = "Cancel")
    \* Closed is the end of the stream with nothing left over
    /\ reader = "Closed" => (eof /\ io = <<>> /\ buffer = <<>>
                             /\ NegotiationCount = Len(requests))
    /\ (at = "done" /\ \A i \in 1..Len(chunks) : chunks[i] \in NegotiationChunks) =>
          (reader = "Closed" \/ ReaderWriteFailed)

\* C14 witness: an SSLRequest, then a GSSEncRequest, both answered, then the
\* Startup on which the reader returned
C14_Witness ==
    /\ reader = "Startup"
    /\ Len(requests) = 3
    /\ requests[1].type = "SSLRequest" /\ requests[2].type = "GSSEncRequest"
    /\ Len(replies) >= 2
    /\ replies[1] = RespSSLResponse(FALSE) /\ replies[2] = RespGSSEncResponse(FALSE)

\* the reader returned a decoding error, not a failed write
ReaderFramingError == reader = "Err" /\ error /= "io"

\* C18: input that fails un-tagged decoding before any Startup (a frame with
\* the unknown code 12345, or a tagged 'p' Password frame sent first) gives a
\* framing error from the decoder; the connection then ends with no reply
\* sent for it, the router is not consulted and nothing is authenticated.
C18_FramingErrorBeforeStartup ==
    /\ ReaderFramingError =>
          /\ ~codec
          /\ at = "done" /\ accept = "None"
          /\ Len(replies) = NegotiationCount
          /\ \A i \in 1..Len(replies) : replies[i].type /= "ErrorResponse"
          /\ ~routed /\ method = "none" /\ auth_salt = <<>>
          /\ ~startup.parsed
    /\ (at = "done" /\ chunks /= <<>>
        /\ chunks[1] \in {UnknownCodeFrame, PasswordFrame(ClientHash)}) =>
          /\ reader = "Err" /\ error = "InvalidInput"
          /\ replies = <<>>
          /\ ~routed

\* C18 witness: the client's first frame had the code 12345 and the
\* connection is over
C18_Witness ==
    /\ at = "done"
    /\ chunks /= <<>> /\ chunks[1] = UnknownCodeFrame
    /\ ReaderFramingError /\ error = "InvalidInput"
    /\ replies = <<>>

\* the client's chunk behind its Startup frame, if it sent one
HasNextChunk == Len(requests) + 1 <= Len(chunks)
NextChunk == chunks[Len(requests) + 1]

\* 'p' u32(len) hash 0 with len = 4 + |hash| + 1
IsPasswordFrame(c) ==
    /\ Len(c) > 5
    /\ c = PasswordFrame(SubSeq(c, 6, Len(c) - 1))

PayloadOf(c) == SubSeq(c, 6, Len(c) - 1)

UserPresent == UserKey \in DOMAIN startup.parameters

\* the payload of the next chunk is the hash expected for this connection
ExpectedHashReceived ==
    /\ UserPresent
    /\ PayloadOf(NextChunk) = Md5Hash(startup.parameters[UserKey], ExpectedPassword, auth_salt)

\* the challenge went out and authenticate got to its try_next
ChallengeDone ==
    /\ method = "Password"
    /\ error /= "io"
    /\ Len(replies) > NegotiationCount
    /\ replies[NegotiationCount + 1] = RespAuthenticationMD5Password(auth_salt)

\* C15: under Password the challenge is sent and flushed before the read;
\* authentication then succeeds exactly when the next client message is a
\* well-formed Password frame ('p' u32(len) hash 0) carrying the expected
\* salted hash and the startup parameters hold "user"; a differing hash or a
\* missing "user" is an authentication failure, end of stream is
\* UnexpectedMessage.  Under Trust nothing is exchanged and the result is
\* success.
C15_PasswordAuthentication ==
    /\ method = "Trust" =>
          (accept = "Some" /\ Len(replies) = NegotiationCount)
    /\ at = "auth_read" => ChallengeDone
    /\ (at = "done" /\ ChallengeDone) =>
          /\ accept = "Some" <=>
                (HasNextChunk /\ IsPasswordFrame(NextChunk) /\ ExpectedHashReceived)
          /\ (HasNextChunk /\ IsPasswordFrame(NextChunk) /\ ~ExpectedHashReceived) =>
                error = "authentication"
          /\ ~HasNextChunk => error = "unexpected_message"

(***************************************************************************)
(* Properties of the error paths of handle_conn (checked under Spec)       *)
(***************************************************************************)
ErrorResponses ==
    {ErrAuthenticationFailed, ErrConnectionRejected, ErrBackendConnectionFailed}

\* what went to the client of c, or waits in the sink for it
Written(c) == out[c] \o write_buf[c]

Has(c, msg) == \E i \in 1..Len(Written(c)) : Written(c)[i] = msg

\* the send of msg was called as the last thing on c: msg is the only
\* ErrorResponse c can have got, and nothing follows it
NotifiedWith(c, msg) ==
    /\ "notified" \in ev[c]
    /\ \A i \in 1..Len(out[c]) :
          out[c][i] \in ErrorResponses => (out[c][i] = msg /\ i = Len(out[c]))

NeverRegistered(c) ==
    /\ "registered" \notin ev[c]
    /\ "deregistered" \notin ev[c]
    /\ ~HoldsEntry(c)

\* C16: when client authentication fails, ErrorResponse("authentication
\* failed") is sent to the client and the connection is closed; the cancel
\* registry is not touched, and neither AuthenticationOk nor ReadyForQuery is
\* sent on that connection.
C16_AuthenticationFailureClosesConnection ==
    \A c \in Conn :
        "auth_failed" \in ev[c] =>
            /\ pc[c] = "done"
            /\ NotifiedWith(c, ErrAuthenticationFailed)
            /\ NeverRegistered(c)
            /\ ~Has(c, AuthenticationOk) /\ ~Has(c, ReadyForQuery)
            /\ "connect" \notin ev[c]

\* C16 witness: a challenge went out, the answer failed and the client got
\* the ErrorResponse
C16_Witness ==
    \E c \in Conn :
        /\ "auth_failed" \in ev[c] /\ "challenged" \in ev[c]
        /\ pc[c] = "done"
        /\ out[c] = <<AuthenticationMD5Password, ErrAuthenticationFailed>>

\* C17: a startup the router rejects is answered with
\* ErrorResponse("connection rejected") and the connection closes with no
\* authentication challenge; a failed backend connect is answered with an
\* ErrorResponse "backend connection failed: .." and the connection closes;
\* in both cases no AuthenticationOk is sent and no registry entry is made.
C17_RejectAndConnectFailure ==
    \A c \in Conn :
        /\ "rejected" \in ev[c] =>
              /\ pc[c] = "done"
              /\ NotifiedWith(c, ErrConnectionRejected)
              /\ ~Has(c, AuthenticationMD5Password)
              /\ auth_method[c] = "none"
              /\ ~Has(c, AuthenticationOk)
              /\ NeverRegistered(c)
        /\ "connect_failed" \in ev[c] =>
              /\ pc[c] = "done"
              /\ NotifiedWith(c, ErrBackendConnectionFailed)
              /\ ~Has(c, AuthenticationOk)
              /\ NeverRegistered(c)

\* C17 witness: one connection was rejected, another lost its backend, and
\* both clients got their ErrorResponse
C17_Witness ==
    \E c, d \in Conn :
        /\ "rejected" \in ev[c] /\ out[c] = <<ErrConnectionRejected>>
        /\ "connect_failed" \in ev[d] /\ pc[d] = "done"
        /\ out[d] /= <<>> /\ out[d][Len(out[d])] = ErrBackendConnectionFailed

\* the error paths of a connection
FailedLate(c) == ev[c] \cap {"rejected", "auth_failed", "connect_failed"} /= {}
FailedReading(c) == "read_failed" \in ev[c]

\* C19 as stated: on every error path other than a Cancel request (framing
\* error, unexpected message, end of stream during startup, reject,
\* authentication failure, backend connect failure) the orchestrator first
\* attempts to send an ErrorResponse to the client and then tears the
\* connection down.
C19_EveryErrorPathNotifies ==
    \A c \in Conn :
        (pc[c] = "done" /\ "cancel" \notin ev[c] /\ (FailedLate(c) \/ FailedReading(c))) =>
            "notified" \in ev[c]

\* C19 amended: on the error paths behind the Startup frame (reject,
\* authentication failure of any kind, backend connect failure) one
\* ErrorResponse is attempted as the last thing before the connection is
\* torn down, and the outcome of the write changes nothing; a framing error
\* or the end of the stream while the startup request is read, like a Cancel
\* request, ends the connection with no notification.
C19_ErrorPathsBehindStartupNotify ==
    \A c \in Conn :
        /\ FailedLate(c) =>
              /\ pc[c] = "done"
              /\ "notified" \in ev[c]
              /\ \A i \in 1..Len(out[c]) :
                    out[c][i] \in ErrorResponses => i = Len(out[c])
        /\ "notified" \in ev[c] => (FailedLate(c) /\ pc[c] = "done")
        /\ (FailedReading(c) \/ "cancel" \in ev[c]) =>
              /\ "notified" \notin ev[c]
              /\ \A i \in 1..Len(out[c]) : out[c][i] \notin ErrorResponses

\* C19 witness: one connection ended by a reject whose ErrorResponse could
\* not be written, another by a framing error, with nothing sent
C19_Witness ==
    \E c, d \in Conn :
        /\ "rejected" \in ev[c] /\ "notified" \in ev[c]
        /\ pc[c] = "done" /\ out[c] = <<>>
        /\ FailedReading(d) /\ pc[d] = "done" /\ out[d] = <<>>

(***************************************************************************)
(* Properties of the cancel registry with colliding keys (checked under    *)
(* Spec)                                                                   *)
(***************************************************************************)
RegisterStep(c) == pc[c] = "register_wait" /\ pc'[c] = "write_pending"

Deregistered(c) == "deregistered" \in ev[c]

\* C22: when two sessions register the same (process_id, secret_key) the
\* registry holds one entry for that key, the handle of the session that
\* registered last, and a Cancel frame for the key fires that handle.
C22_LatestRegistrationWins ==
    /\ [][\A c \in Conn :
            RegisterStep(c) =>
               /\ cancel_handles'[key[c]] = CancelHandle(c)
               /\ \A k \in CancelKey \ {key[c]} : cancel_handles'[k] = cancel_handles[k]]_vars
    /\ [](\A c, d \in Conn :
            (c /= d /\ key[c] = key[d] /\ Registered(c) /\ Registered(d)
             /\ ~Deregistered(c) /\ ~Deregistered(d)) =>
                cancel_handles[key[c]] \in {CancelHandle(c), CancelHandle(d)})
    /\ [][\A x \in Conn :
            (LookupStep(x) /\ cancel_handles[key[x]] /= NoHandle) =>
                fired'[x] = Append(fired[x], cancel_handles[key[x]])]_vars

\* C22 witness: two sessions registered the same key, the second while the
\* first was relaying, and the entry is the second one's handle
C22_Witness ==
    \E c, d \in Conn :
        /\ c /= d /\ key[c] = key[d]
        /\ "relay" \in ev[c] /\ InRelay(c)
        /\ pc[d] = "write_pending" /\ "relay" \notin ev[d]
        /\ cancel_handles[key[c]] = CancelHandle(d)

\* C25: while a session is in the byte relay the registry maps its
\* (process_id, secret_key) to a handle, so that a Cancel frame for a
\* relaying session is never dropped, also when another session with an
\* equal key registers and terminates in the meantime.
C25_RelayingSessionHasEntry ==
    \A c \in Conn : InRelay(c) => cancel_handles[key[c]] /= NoHandle

\* the cancel RPC of connection x is in flight on the handle of session c
CancelInFlightOn(x, c) ==
    /\ pc[x] = "cancel_query"
    /\ fired[x] /= <<>> /\ fired[x][Len(fired[x])] = CancelHandle(c)

\* C26: once the deregister of a session has completed, no cancel RPC that
\* began with a lookup of that session's handle is still in flight, and a
\* Cancel frame looked up later starts a cancel RPC only on the handle of a
\* session that has registered the key and not deregistered since.
C26_NoCancelAfterDeregister ==
    /\ [](\A c, x \in Conn : Deregistered(c) => ~CancelInFlightOn(x, c))
    /\ [](\A k \in CancelKey :
            cancel_handles[k] /= NoHandle =>
                /\ Registered(cancel_handles[k])
                /\ ~Deregistered(cancel_handles[k])
                /\ key[cancel_handles[k]] = k)
    /\ [][\A x \in Conn :
            (LookupStep(x) /\ fired'[x] /= fired[x]) =>
                /\ ~Deregistered(cancel_handles[key[x]])
                /\ fired'[x] = Append(fired[x], cancel_handles[key[x]])]_vars
    /\ [][\A c \in Conn :
            (~Deregistered(c) /\ "deregistered" \in ev'[c]) =>
                cancel_handles'[key[c]] = NoHandle]_vars

\* C26 witness: a cancel RPC was fired on the handle of a relaying session
\* and has returned, and the session has deregistered
C26_Witness ==
    \E c, x \in Conn :
        /\ Deregistered(c) /\ pc[c] = "done"
        /\ fired[x] = <<CancelHandle(c)>>
        /\ "cancel_returned" \in ev[x] /\ pc[x] = "done"

(***************************************************************************)
(* Properties of the order of the phases of handle_conn (checked under     *)
(* Spec)                                                                   *)
(***************************************************************************)
\* connect_proxy is about to be called, or was called, for c
BackendAttempt(c) == pc[c] = "connect" \/ "connect" \in ev[c]

\* C24: the backend connector is invoked for a connection only after the
\* router accepted its startup and its client authenticated; a connection
\* that sent a Cancel frame, was rejected, failed authentication or failed
\* startup decoding never causes a backend connection attempt.
C24_BackendOnlyAfterAuthentication ==
    \A c \in Conn :
        /\ BackendAttempt(c) =>
              /\ "startup" \in ev[c]
              /\ "accepted" \in ev[c]
              /\ "authenticated" \in ev[c]
              /\ auth_method[c] \in {"Trust", "Password"}
        /\ (ev[c] \cap {"cancel", "rejected", "auth_failed", "read_failed"} /= {}) =>
              /\ ~BackendAttempt(c)
              /\ key[c] = NoKey \/ "cancel" \in ev[c]

\* C24 witness: a connection that answered the password challenge got its
\* backend, while another one was rejected
C24_Witness ==
    \E c, d \in Conn :
        /\ "challenged" \in ev[c] /\ "connected" \in ev[c]
        /\ "rejected" \in ev[d] /\ pc[d] = "done"

(***************************************************************************)
(* Properties of the decoder's outcomes (checked under SpecCodec)          *)
(***************************************************************************)
\* C23: for every content of the input buffer, in un-tagged and in tagged
\* mode, decode ends with need-more, a request or an error value and never
\* aborts: the cursor never points past the end of the frame it reads, also
\* for a tagged frame with len = 4 and an un-tagged frame with len 4..7.
C23_DecodeNeverAborts ==
    Decoded => result.kind \in {"None", "Some", "Err"}

(***************************************************************************)
(* Properties of the byte relay (checked under SpecRelay)                  *)
(***************************************************************************)
\* what write_pending owes each socket, in the order it is owed
OwedToClient == client.write_buf \o server.read_buf
OwedToServer == server.write_buf \o client.read_buf

\* s is the first Len(s) elements of t
StartsWith(t, s) == Len(s) <= Len(t) /\ SubSeq(t, 1, Len(s)) = s

\* the bytes of an io behind the first n
Behind(got, n) == SubSeq(got, n + 1, Len(got))

\* an io holds a part of what it is owed, or all of it followed by the bytes
\* the pump moved, which with the bytes still to be moved are what the peer
\* sent, each once and in order
DeliveredInOrder(got, owed, origin, left) ==
    \/ StartsWith(owed, got)
    \/ /\ StartsWith(got, owed)
       /\ \E n \in 0..(Len(got) + Len(left)) :
             Behind(got, Len(owed)) \o left = BytesFrom(origin, n)

WriteBufsFlushed ==
    /\ Len(client.io) >= Len(client.write_buf)
    /\ Len(server.io) >= Len(server.write_buf)

ReadBufsFlushed ==
    /\ Len(client.io) >= Len(OwedToClient)
    /\ Len(server.io) >= Len(OwedToServer)

ReadBufByteWritten ==
    \/ Len(client.io) > Len(client.write_buf)
    \/ Len(server.io) > Len(server.write_buf)

PumpedByteWritten ==
    \/ Len(client.io) > Len(OwedToClient)
    \/ Len(server.io) > Len(OwedToServer)

\* C21: at entry to the byte relay every byte buffered on either framed
\* stream is delivered before any byte the live pump moves, nothing is lost
\* or duplicated: each side's write_buf goes to its own socket first, then
\* each side's read_buf to the peer's socket, then the pump starts; a failed
\* flush step ends the relay with the error and the later steps do not run.
C21_BufferedBytesBeforePump ==
    /\ relay_at /= "idle"
    /\ DeliveredInOrder(client.io, OwedToClient, 60, incoming.server)
    /\ DeliveredInOrder(server.io, OwedToServer, 50, incoming.client)
    /\ ReadBufByteWritten => WriteBufsFlushed
    /\ PumpedByteWritten => ReadBufsFlushed
    /\ relay_at = "write_bufs" => ~ReadBufByteWritten
    /\ relay_at = "read_bufs" => WriteBufsFlushed /\ ~PumpedByteWritten
    /\ relay_at = "copy" => ReadBufsFlushed
    /\ relay_result = "ok" =>
          /\ ReadBufsFlushed
          /\ incoming = [client |-> <<>>, server |-> <<>>]
    /\ relay_at = "done" => relay_result \in {"ok", "err"}
    /\ (relay_at = "done" /\ ~ReadBufsFlushed) =>
          /\ relay_result = "err"
          /\ ~PumpedByteWritten

\* C21 witness: the relay ended at EOF of both directions after all four
\* buffers and the bytes both peers sent were written
C21_Witness ==
    /\ relay_result = "ok"
    /\ Len(client.write_buf) = MaxBuffered /\ Len(client.read_buf) = MaxBuffered
    /\ Len(server.write_buf) = MaxBuffered /\ Len(server.read_buf) = MaxBuffered
    /\ Len(client.io) = 2 * MaxBuffered + MaxLive
    /\ Len(server.io) = 2 * MaxBuffered + MaxLive

\* a flush step failed half way: the first join wrote a part of a
\* write_buf, and no later byte is on either socket
C21_FailedFlushWitness ==
    /\ relay_result = "err"
    /\ client.io /= <<>>
    /\ ~WriteBufsFlushed
    /\ client.read_buf /= <<>> /\ server.read_buf /= <<>>
    /\ incoming.client /= <<>>

(***************************************************************************)
(* Properties of connect_proxy (checked under SpecConnect)                 *)
(***************************************************************************)
\* at least one host or hostaddr, equal counts when both are given
HostsGiven(cfg) ==
    /\ cfg.host > 0 \/ cfg.hostaddr > 0
    /\ (cfg.host > 0 /\ cfg.hostaddr > 0) => cfg.host = cfg.hostaddr

\* no port, one port for all hosts, or one port per host
PortsFit(cfg) == cfg.port <= 1 \/ cfg.port = NumHosts(cfg)

\* the attempts so far were made on different configured hosts, in the
\* configured order unless the order is random, and none but the last of
\* them connected
TriedOneAfterAnother ==
    /\ \A a \in 1..Len(tried) :
          /\ tried[a].host \in 0..(NumHosts(config) - 1)
          /\ \A b \in 1..Len(tried) : a /= b => tried[a].host /= tried[b].host
          /\ config.load_balance_hosts = "Disable" => tried[a].host = a - 1
          /\ a < Len(tried) => tried[a].kind = "Err"
    /\ (tried /= <<>> /\ tried[Len(tried)].kind = "Ok") =>
          connect_result = [kind |-> "Ok", host |-> tried[Len(tried)].host]

\* Ok is the ProxyInfo of the host tried last, the first one that connected
OkIsFirstConnected ==
    connect_result.kind = "Ok" =>
        /\ tried /= <<>>
        /\ tried[Len(tried)] =
              [host |-> connect_result.host, kind |-> "Ok", error |-> "None"]
        /\ Len(indices) = NumHosts(config) - Len(tried)
        /\ connect_at = "done"

\* Err is returned after every host was tried and failed, and is the error
\* of the last attempt
ErrIsLastOfAllFailed ==
    connect_result.kind = "Err" =>
        /\ Len(tried) = NumHosts(config)
        /\ tried /= <<>>
        /\ \A a \in 1..Len(tried) : tried[a].kind = "Err"
        /\ connect_result.error = tried[Len(tried)]

\* C27 as stated: connect_proxy tries the configured hosts one after another,
\* returns the ProxyInfo of the first host that connects without trying a
\* later one, returns an error only when every attempt failed, that error
\* being the last attempt's, and with a config that has at least one host or
\* hostaddr and equal counts when both are given never aborts.
C27_ErrorOnlyFromLastAttempt ==
    HostsGiven(config) =>
        /\ TriedOneAfterAnother
        /\ OkIsFirstConnected
        /\ ErrIsLastOfAllFailed
        /\ connect_result.kind /= "Panic"

\* C27 amended: the same for a config that passes the whole validation of
\* connect_proxy, which also wants no port, one port, or as many ports as
\* hosts; a config that fails the validation gets a configuration error
\* before any host is tried.
C27_ErrorOnlyFromLastAttemptOrConfig ==
    /\ TriedOneAfterAnother
    /\ OkIsFirstConnected
    /\ (HostsGiven(config) /\ PortsFit(config)) =>
          /\ ErrIsLastOfAllFailed
          /\ connect_result.kind /= "Panic"
    /\ ~(HostsGiven(config) /\ PortsFit(config)) =>
          /\ tried = <<>>
          /\ connect_at = "done" =>
                /\ connect_result.kind = "Err"
                /\ connect_result.error.kind = "Config"

\* C27 witness: with the hosts in random order every host was tried, the
\* attempts failed with different errors, and the error of the last attempt
\* was returned
C27_Witness ==
    /\ connect_result.kind = "Err"
    /\ NumHosts(config) = MaxHosts
    /\ Len(tried) = MaxHosts
    /\ tried[1].host /= 0
    /\ tried[1].error /= tried[MaxHosts].error
    /\ connect_result.error = tried[MaxHosts]

\* the second host tried connected, and the third was not tried
C27_FirstConnectedWitness ==
    /\ connect_result.kind = "Ok"
    /\ NumHosts(config) = MaxHosts
    /\ Len(tried) = 2
    /\ connect_result.host = tried[2].host
    /\ indices /= <<>>

====
